---- MODULE Spec2Model ----
(***************************************************************************)
(* The schedule store of tadolocalcontrol (src/src/schedule_storage.py):   *)
(* the four SQLite tables, the CRUD handlers of OptimizedScheduleStorage,  *)
(* the legacy importer and the instant-in-time resolver; and the           *)
(* consolidated automations of SmartAutomationManager                      *)
(* (src/src/smart_automation_manager.py) on the automation platform.       *)
(*                                                                         *)
(* Python values that the code inspects character by character (time      *)
(* strings, day names, room references, the temperature 'off') are tagged  *)
(* values Str(<<"0","6",":","0","0">>); values the code only compares for  *)
(* equality (schedule ids, names, zone ids, actions) are TLA+ strings.     *)
(***************************************************************************)
EXTENDS Integers, Sequences, FiniteSets, Bags, TLC

VARIABLES
    schedules,         \* table schedules: set of rows, primary key id
    schedule_zones,    \* table schedule_zones: set of (schedule_id, zone_id)
    schedule_rooms,    \* table schedule_rooms: set of (schedule_id, room_name, area_id)
    schedule_entries,  \* table schedule_entries: bag of rows (the rowid is not kept)
    now,               \* CURRENT_TIMESTAMP, in whole seconds
    automations,       \* the automations the platform holds: set of (id, config)
    pushes,            \* the pushes under way, one for each caller: its position
    files,             \* config/schedules/<id>.json of the older client
    last               \* the last call: its name, arguments and outcome

vars == <<schedules, schedule_zones, schedule_rooms, schedule_entries, now,
          automations, pushes, files, last>>
tables == <<schedules, schedule_zones, schedule_rooms, schedule_entries>>

-----------------------------------------------------------------------------
(* Python values *)

None == [t |-> "None"]
Num(n) == [t |-> "num", v |-> n]
Str(s) == [t |-> "str", v |-> s]
List(s) == [t |-> "list", v |-> s]
Dict(d) == [t |-> "dict", v |-> d]

EmptyDict == [k \in {} |-> None]

\* `if x:` on a list or dict argument that may be None
Truthy(x) ==
    CASE x.t = "list" -> Len(x.v) > 0
      [] x.t = "dict" -> DOMAIN x.v # {}
      [] OTHER -> FALSE

\* d.get(k, default) on a dict with string keys
DictGet(d, k, default) == IF k \in DOMAIN d THEN d[k] ELSE default

UpperChars == <<"A","B","C","D","E","F","G","H","I","J","K","L","M",
                "N","O","P","Q","R","S","T","U","V","W","X","Y","Z">>
LowerChars == <<"a","b","c","d","e","f","g","h","i","j","k","l","m",
                "n","o","p","q","r","s","t","u","v","w","x","y","z">>
DigitChars == <<"0","1","2","3","4","5","6","7","8","9">>

LowerOf == [c \in {UpperChars[i] : i \in 1..26} |->
               LowerChars[CHOOSE i \in 1..26 : UpperChars[i] = c]]

LowerChar(c) == IF c \in DOMAIN LowerOf THEN LowerOf[c] ELSE c

\* str.lower()
Lower(s) == [i \in 1..Len(s) |-> LowerChar(s[i])]

DigitOf == [c \in {DigitChars[i] : i \in 1..10} |->
               (CHOOSE i \in 1..10 : DigitChars[i] = c) - 1]

IsDigit(c) == c \in DOMAIN DigitOf
DigitVal(c) == DigitOf[c]

\* index of the first occurrence of character c in s, 0 when absent
FirstIndex(s, c) ==
    IF \E i \in 1..Len(s) : s[i] = c
    THEN CHOOSE i \in 1..Len(s) : s[i] = c /\ \A j \in 1..(i-1) : s[j] # c
    ELSE 0

\* str.split(sep) for a one-character separator: the list of parts
RECURSIVE Split(_, _)
Split(s, sep) ==
    LET i == FirstIndex(s, sep) IN
    IF i = 0 THEN <<s>>
    ELSE <<SubSeq(s, 1, i-1)>> \o Split(SubSeq(s, i+1, Len(s)), sep)

\* value of a non-empty string of decimal digits
RECURSIVE DigitsVal(_)
DigitsVal(s) ==
    IF Len(s) = 0 THEN 0
    ELSE 10 * DigitsVal(SubSeq(s, 1, Len(s)-1)) + DigitVal(s[Len(s)])

\* int(s): an optional sign followed by one or more decimal digits; anything
\* else raises ValueError (ok = FALSE).  Surrounding blanks and '_' separators,
\* which int() also accepts, are outside the input alphabet used here.
ParseInt(s) ==
    LET signed == Len(s) > 0 /\ s[1] \in {"+", "-"}
        body   == IF signed THEN SubSeq(s, 2, Len(s)) ELSE s
        good   == Len(body) > 0 /\ \A i \in 1..Len(body) : IsDigit(body[i])
    IN IF ~good THEN [ok |-> FALSE, v |-> 0]
       ELSE [ok |-> TRUE,
             v |-> IF signed /\ s[1] = "-" THEN 0 - DigitsVal(body) ELSE DigitsVal(body)]

\* decimal digits of n >= 0
RECURSIVE DecDigits(_)
DecDigits(n) ==
    IF n < 10 THEN <<DigitChars[n+1]>>
    ELSE DecDigits(n \div 10) \o <<DigitChars[(n % 10) + 1]>>

\* Fmt02d as f"{n:2d}": padded with a blank, not with a zero
Fmt02dBlank(n) ==
    LET sign == IF n < 0 THEN <<"-">> ELSE <<>>
        digs == DecDigits(IF n < 0 THEN 0 - n ELSE n)
    IN IF Len(sign) + Len(digs) < 2 THEN <<" ">> \o sign \o digs ELSE sign \o digs

\* f"{n:02d}": sign first, then zero padding to a total width of two
Fmt02d(n) ==
    LET sign == IF n < 0 THEN <<"-">> ELSE <<>>
        digs == DecDigits(IF n < 0 THEN 0 - n ELSE n)
    IN IF Len(sign) + Len(digs) < 2 THEN sign \o <<"0">> \o digs ELSE sign \o digs

\* _time_str_to_minutes: "HH:MM" -> minutes; any exception (not a string, not
\* exactly two parts, a part int() rejects) gives 0
_time_str_to_minutes(time_str) ==
    IF time_str.t # "str" THEN 0
    ELSE LET parts == Split(time_str.v, ":") IN
         IF Len(parts) # 2 THEN 0
         ELSE LET h == ParseInt(parts[1])
                  m == ParseInt(parts[2])
              IN IF h.ok /\ m.ok THEN h.v * 60 + m.v ELSE 0

\* _minutes_to_time_str: floor division and modulus, as Python's // and %
_minutes_to_time_str(minutes) ==
    Str(Fmt02d(minutes \div 60) \o <<":">> \o Fmt02d(minutes % 60))

-----------------------------------------------------------------------------
(* The tables and the statements on them *)

\* the committed database, as one value
DB == [schedules |-> schedules, zones |-> schedule_zones,
       rooms |-> schedule_rooms, entries |-> schedule_entries]

S_mon == <<"m","o","n">>
S_tue == <<"t","u","e">>
S_wed == <<"w","e","d">>
S_thu == <<"t","h","u">>
S_fri == <<"f","r","i">>
S_sat == <<"s","a","t">>
S_sun == <<"s","u","n">>
S_off == <<"o","f","f">>
S_0800 == <<"0","8",":","0","0">>

\* day_names of get_schedule; day_mapping of create_schedule maps DayNames[i] to i-1
DayNames == <<S_mon, S_tue, S_wed, S_thu, S_fri, S_sat, S_sun>>

\* DayNum without .lower(): the lookup is case-sensitive
DayNumCaseSensitive(day_abbr) ==
    IF \E i \in 1..7 : DayNames[i] = day_abbr.v
    THEN Num((CHOOSE i \in 1..7 : DayNames[i] = day_abbr.v) - 1)
    ELSE None

\* day_mapping.get(day_abbr.lower()): the day number, or None for an unknown name
DayNum(day_abbr) ==
    LET l == Lower(day_abbr.v) IN
    IF \E i \in 1..7 : DayNames[i] = l
    THEN Num((CHOOSE i \in 1..7 : DayNames[i] = l) - 1)
    ELSE None

\* str(x) of a value
PyStr(x) ==
    CASE x.t = "str"  -> x.v
      [] x.t = "None" -> <<"N","o","n","e">>
      [] x.t = "num"  -> (IF x.v < 0 THEN <<"-">> \o DecDigits(0 - x.v)
                                       ELSE DecDigits(x.v))
      [] OTHER        -> <<"?">>

\* str(temperature).lower() == 'off'
IsOff(temperature) == Lower(PyStr(temperature)) = S_off

\* INSERT OR REPLACE INTO schedules (id, name, active, metadata): the row with
\* this primary key is removed and a new row takes the column defaults, so
\* created_at and updated_at are both the current timestamp.  No cascade:
\* no connection of this class issues PRAGMA foreign_keys = ON.
UpsertSchedule(db, a, ts) ==
    [db EXCEPT !.schedules =
        {r \in @ : r.id # a.schedule_id} \cup
        {[id |-> a.schedule_id, name |-> a.name, active |-> a.active,
          created_at |-> ts, updated_at |-> ts,
          metadata |-> IF Truthy(a.metadata) THEN a.metadata.v ELSE EmptyDict]}]

\* the rows of a bag of rows with the given schedule_id, and the other rows
RowsOfSchedule(B, sid) == [r \in {q \in DOMAIN B : q.schedule_id = sid} |-> B[r]]
RowsOfOthers(B, sid) == [r \in {q \in DOMAIN B : q.schedule_id # sid} |-> B[r]]

\* ClearExisting without the DELETE FROM schedule_entries
ClearExistingKeepEntries(db, sid) ==
    [db EXCEPT !.zones = {r \in @ : r.schedule_id # sid},
               !.rooms = {r \in @ : r.schedule_id # sid}]

\* DELETE FROM schedule_zones / schedule_rooms / schedule_entries WHERE schedule_id = ?
ClearExisting(db, sid) ==
    LET Other(r) == r.schedule_id # sid IN
    [db EXCEPT !.zones   = {r \in @ : Other(r)},
               !.rooms   = {r \in @ : Other(r)},
               !.entries = RowsOfOthers(@, sid)]

\* the zone loop: INSERT INTO schedule_zones; UNIQUE(schedule_id, zone_id)
\* raises IntegrityError
RECURSIVE InsertZones(_, _, _)
InsertZones(st, sid, zones) ==
    IF ~st.ok \/ Len(zones) = 0 THEN st
    ELSE LET row == [schedule_id |-> sid, zone_id |-> Head(zones)] IN
         IF row \in st.db.zones THEN [st EXCEPT !.ok = FALSE]
         ELSE InsertZones([st EXCEPT !.db.zones = @ \cup {row}], sid, Tail(zones))

\* "room_name|area_id" -> (room_name, area_id); area_id None without a '|'
RoomRow(sid, room) ==
    LET i == FirstIndex(room.v, "|") IN
    IF i = 0
    THEN [schedule_id |-> sid, room_name |-> room, area_id |-> None]
    ELSE [schedule_id |-> sid, room_name |-> Str(SubSeq(room.v, 1, i-1)),
          area_id |-> Str(SubSeq(room.v, i+1, Len(room.v)))]

\* the room loop: a reference that is no string raises TypeError at `'|' in`;
\* UNIQUE(schedule_id, room_name) raises IntegrityError
RECURSIVE InsertRooms(_, _, _)
InsertRooms(st, sid, rooms) ==
    IF ~st.ok \/ Len(rooms) = 0 THEN st
    ELSE IF Head(rooms).t # "str" THEN [st EXCEPT !.ok = FALSE]
    ELSE LET row == RoomRow(sid, Head(rooms)) IN
         IF \E r \in st.db.rooms :
                r.schedule_id = sid /\ r.room_name = row.room_name
         THEN [st EXCEPT !.ok = FALSE]
         ELSE InsertRooms([st EXCEPT !.db.rooms = @ \cup {row}], sid, Tail(rooms))

\* the row one entry dict gives on one day
EntryRow(sid, day_num, entry) ==
    LET time_str    == DictGet(entry, "time", Str(S_0800))
        temperature == DictGet(entry, "temperature", Num(20))
        action      == DictGet(entry, "action", "heat")
    IN [schedule_id  |-> sid,
        day_of_week  |-> day_num,
        time_minutes |-> _time_str_to_minutes(time_str),
        temperature  |-> IF IsOff(temperature) THEN None ELSE temperature,
        action       |-> IF IsOff(temperature) THEN "off" ELSE action]

\* the inner loop: one INSERT INTO schedule_entries per entry
RECURSIVE InsertDayEntries(_, _, _, _)
InsertDayEntries(B, sid, day_num, entries) ==
    IF Len(entries) = 0 THEN B
    ELSE InsertDayEntries(B (+) SetToBag({EntryRow(sid, day_num, Head(entries))}),
                          sid, day_num, Tail(entries))

\* the day loop: a day that is no string raises AttributeError at .lower();
\* an unknown day name is skipped
RECURSIVE InsertDays(_, _, _, _)
InsertDays(st, sid, days, entries) ==
    IF ~st.ok \/ Len(days) = 0 THEN st
    ELSE IF Head(days).t # "str" THEN [st EXCEPT !.ok = FALSE]
    ELSE LET day_num == DayNum(Head(days)) IN
         IF day_num = None THEN InsertDays(st, sid, Tail(days), entries)
         ELSE InsertDays(
                [st EXCEPT !.db.entries = InsertDayEntries(@, sid, day_num.v, entries)],
                sid, Tail(days), entries)

\* the statements of create_schedule inside its transaction, up to the
\* first one that raises: ok = FALSE when one did
CreateTxn(db, a, ts) ==
    LET sid == a.schedule_id
        s0  == [ok |-> TRUE, db |-> ClearExisting(UpsertSchedule(db, a, ts), sid)]
        s1  == IF Truthy(a.zones) THEN InsertZones(s0, sid, a.zones.v) ELSE s0
        s2  == IF Truthy(a.rooms) THEN InsertRooms(s1, sid, a.rooms.v) ELSE s1
    IN IF Truthy(a.entries) /\ Truthy(a.days)
       THEN InsertDays(s2, sid, a.days.v, a.entries.v)
       ELSE s2

\* EndTransaction with the statements before the exception kept
EndTransactionNoRollback(before, txn) == txn.db

\* `with sqlite3.connect(...) as conn`: the block's statements are committed
\* when it ends normally and rolled back when it raises
EndTransaction(before, txn) == IF txn.ok THEN txn.db ELSE before

-----------------------------------------------------------------------------
(* The queries *)

\* every order in which a SELECT without ORDER BY may return the rows of S
RECURSIVE Orders(_)
Orders(S) ==
    IF S = {} THEN {<<>>}
    ELSE UNION {{<<x>> \o rest : rest \in Orders(S \ {x})} : x \in S}

\* ORDER BY day_of_week, time_minutes: every order of the rows of bag B that
\* is sorted by that key (rows with equal keys come in any order)
RECURSIVE OrderedByDayTime(_)
OrderedByDayTime(B) ==
    IF DOMAIN B = {} THEN {<<>>}
    ELSE LET Before(r, q) == \/ r.day_of_week < q.day_of_week
                             \/ /\ r.day_of_week = q.day_of_week
                                /\ r.time_minutes <= q.time_minutes
             firsts == {r \in DOMAIN B : \A q \in DOMAIN B : Before(r, q)}
         IN UNION {{<<r>> \o rest : rest \in OrderedByDayTime(B (-) SetToBag({r}))}
                   : r \in firsts}

\* the room reference get_schedule rebuilds from a row
RoomRef(row) ==
    IF row.area_id.t = "str" /\ Len(row.area_id.v) > 0
    THEN Str(row.room_name.v \o <<"|">> \o row.area_id.v)
    ELSE row.room_name

\* one element of periods
Period(row) ==
    [time        |-> _minutes_to_time_str(row.time_minutes),
     temperature |-> IF row.temperature # None THEN row.temperature ELSE Str(S_off),
     action      |-> row.action]

\* days: the day names in order of first appearance in the ordered rows
RECURSIVE DaysOf(_, _)
DaysOf(rows, days) ==
    IF Len(rows) = 0 THEN days
    ELSE LET day_name == Str(DayNames[Head(rows).day_of_week + 1]) IN
         DaysOf(Tail(rows),
                IF \E i \in 1..Len(days) : days[i] = day_name
                THEN days ELSE Append(days, day_name))

\* get_schedule on database db: the set of values it may return (None when no
\* row has the id); the metadata keys are merged last and override
GetSchedule(db, schedule_id) ==
    LET found == {r \in db.schedules : r.id = schedule_id} IN
    IF found = {} THEN {None}
    ELSE LET schedule_row == CHOOSE r \in found : TRUE
             zone_orders == Orders({r.zone_id : r \in
                               {q \in db.zones : q.schedule_id = schedule_id}})
             room_orders == Orders({q \in db.rooms : q.schedule_id = schedule_id})
             row_orders  == OrderedByDayTime(
                               RowsOfSchedule(db.entries, schedule_id))
         IN { Dict(schedule_row.metadata @@
                  [id         |-> schedule_row.id,
                   name       |-> schedule_row.name,
                   active     |-> schedule_row.active,
                   zones      |-> zones,
                   rooms      |-> [i \in 1..Len(rooms) |-> RoomRef(rooms[i])],
                   days       |-> DaysOf(rows, <<>>),
                   periods    |-> [i \in 1..Len(rows) |-> Period(rows[i])],
                   entries    |-> [i \in 1..Len(rows) |-> Period(rows[i])],
                   created_at |-> schedule_row.created_at,
                   updated_at |-> schedule_row.updated_at])
              : zones \in zone_orders, rooms \in room_orders, rows \in row_orders }

\* the list built from get_schedule(id) for id in ids, a None result skipped:
\* the lists that may come out
RECURSIVE MapGetSchedule(_, _)
MapGetSchedule(db, ids) ==
    IF Len(ids) = 0 THEN {<<>>}
    ELSE {(IF s = None THEN <<>> ELSE <<s>>) \o rest :
              s \in GetSchedule(db, Head(ids)),
              rest \in MapGetSchedule(db, Tail(ids))}

\* SELECT id FROM schedules ORDER BY created_at DESC: every order of the ids
\* that is sorted by that key (rows with equal created_at come in any order)
IdsByCreatedDesc(db) ==
    {q \in Orders({r.id : r \in db.schedules}) :
        \A i, j \in 1..Len(q) : i < j =>
            \E a, b \in db.schedules :
                a.id = q[i] /\ b.id = q[j] /\ a.created_at >= b.created_at}

\* get_all_schedules on database db: the lists it may return
GetAllSchedules(db) ==
    UNION {MapGetSchedule(db, ids) : ids \in IdsByCreatedDesc(db)}

\* SELECT DISTINCT sz.schedule_id FROM schedule_zones sz JOIN schedules s
\* ON sz.schedule_id = s.id WHERE sz.zone_id = ? AND s.active = 1
ActiveIdsForZone(db, zone_id) ==
    {sz.schedule_id : sz \in
        {q \in db.zones : /\ q.zone_id = zone_id
                          /\ \E s \in db.schedules : s.id = q.schedule_id /\ s.active}}

\* SELECT DISTINCT sr.schedule_id FROM schedule_rooms sr JOIN schedules s
\* ON sr.schedule_id = s.id WHERE sr.room_name = ? AND s.active = 1
ActiveIdsForRoom(db, room_name) ==
    {sr.schedule_id : sr \in
        {q \in db.rooms : /\ q.room_name = room_name
                          /\ \E s \in db.schedules : s.id = q.schedule_id /\ s.active}}

\* get_active_schedules_for_zone: the lists it may return
GetActiveSchedulesForZone(db, zone_id) ==
    UNION {MapGetSchedule(db, ids) : ids \in Orders(ActiveIdsForZone(db, zone_id))}

\* get_active_schedules_for_room: the lists it may return
GetActiveSchedulesForRoom(db, room_name) ==
    UNION {MapGetSchedule(db, ids) : ids \in Orders(ActiveIdsForRoom(db, room_name))}

\* get_zones_with_schedules: SELECT DISTINCT sz.zone_id FROM schedule_zones sz
\* JOIN schedules s ON sz.schedule_id = s.id WHERE s.active = 1
GetZonesWithSchedules(db) ==
    Orders({sz.zone_id : sz \in
        {q \in db.zones : \E s \in db.schedules : s.id = q.schedule_id /\ s.active}})

\* StateAtTimeWhere without the day_of_week condition
StateAtTimeWhereAnyDay(se, sz, s, zone_id, day_of_week, time_minutes) ==
    /\ se.schedule_id = sz.schedule_id
    /\ se.schedule_id = s.id
    /\ sz.zone_id = zone_id
    /\ se.time_minutes <= time_minutes
    /\ s.active

\* StateAtTimeWhere with the schedules table joined without its ON condition
StateAtTimeWhereNoJoin(se, sz, s, zone_id, day_of_week, time_minutes) ==
    /\ se.schedule_id = sz.schedule_id
    /\ sz.zone_id = zone_id
    /\ se.day_of_week = day_of_week
    /\ se.time_minutes <= time_minutes
    /\ s.active

\* the WHERE clause of get_schedule_state_at_time on one joined row
\* (se JOIN sz ON se.schedule_id = sz.schedule_id JOIN s ON se.schedule_id = s.id)
StateAtTimeWhere(se, sz, s, zone_id, day_of_week, time_minutes) ==
    /\ se.schedule_id = sz.schedule_id
    /\ se.schedule_id = s.id
    /\ sz.zone_id = zone_id
    /\ se.day_of_week = day_of_week
    /\ se.time_minutes <= time_minutes
    /\ s.active

\* the joined rows the WHERE clause keeps
StateAtTimeRows(db, zone_id, day_of_week, time_minutes) ==
    {j \in [se : DOMAIN db.entries, sz : db.zones, s : db.schedules] :
        StateAtTimeWhere(j.se, j.sz, j.s, zone_id, day_of_week, time_minutes)}

\* StateAtTimeFirst with ORDER BY se.time_minutes ASC
StateAtTimeFirstAsc(rows) ==
    {j \in rows : \A k \in rows : j.se.time_minutes <= k.se.time_minutes}

\* ORDER BY se.time_minutes DESC LIMIT 1: a row that no kept row follows
StateAtTimeFirst(rows) ==
    {j \in rows : \A k \in rows : k.se.time_minutes <= j.se.time_minutes}

\* get_schedule_state_at_time: the values it may return, each with the id of
\* the schedule whose entry was selected (`of`, not part of the returned dict)
GetScheduleStateAtTime(db, zone_id, day_of_week, time_minutes) ==
    LET rows == StateAtTimeRows(db, zone_id, day_of_week, time_minutes) IN
    IF rows = {} THEN {[ret |-> None, of |-> "-"]}
    ELSE {[ret |-> Dict([temperature   |-> j.se.temperature,
                         action        |-> j.se.action,
                         schedule_name |-> j.s.name]),
           of  |-> j.se.schedule_id] : j \in StateAtTimeFirst(rows)}

-----------------------------------------------------------------------------
(* The handlers: what each does to the committed database and what it returns *)

\* create_schedule: the transaction, then get_schedule on the committed rows;
\* an exception inside the block is logged and raised again
CreateOutcome(db, a, ts) ==
    LET txn   == CreateTxn(db, a, ts)
        after == EndTransaction(db, txn)
    IN [raised |-> ~txn.ok,
        db     |-> after,
        rets   |-> IF txn.ok THEN GetSchedule(after, a.schedule_id) ELSE {None}]

\* PartialUpdate with active falling back to the column default, not to
\* the stored value
PartialUpdateDefaultActive(rows, schedule_id, updates, ts) ==
    {IF r.id = schedule_id
     THEN [r EXCEPT !.name = DictGet(updates, "name", @),
                    !.active = DictGet(updates, "active", TRUE),
                    !.updated_at = ts]
     ELSE r : r \in rows}

\* UPDATE schedules SET name = COALESCE(?, name), active = COALESCE(?, active),
\* updated_at = CURRENT_TIMESTAMP WHERE id = ?  (updates.get(k) is NULL for a
\* key that is not supplied)
PartialUpdate(rows, schedule_id, updates, ts) ==
    {IF r.id = schedule_id
     THEN [r EXCEPT !.name = DictGet(updates, "name", @),
                    !.active = DictGet(updates, "active", @),
                    !.updated_at = ts]
     ELSE r : r \in rows}

\* what get_schedule, which opens a connection of its own, reads while the
\* UPDATE of update_schedule's connection is not yet committed
ReadBeforeCommit(committed, pending) == committed

\* NotFound with the test of current_schedule left out
NotFoundNever(currents) == FALSE

\* `if not current_schedule: raise ValueError`
NotFound(currents) == currents = {None}

\* UpdateOutcome with the rooms of the current schedule forwarded to
\* create_schedule by the full update
UpdateOutcomeKeepRooms(db, schedule_id, updates, ts) ==
    LET currents == GetSchedule(db, schedule_id) IN
    IF NotFound(currents) THEN [raised |-> TRUE, db |-> db, rets |-> {None}]
    ELSE LET current == (CHOOSE c \in currents : TRUE).v IN
         IF {"zones", "entries", "days"} \subseteq DOMAIN updates
         THEN CreateOutcome(db,
                  [schedule_id |-> schedule_id,
                   name        |-> DictGet(updates, "name", current.name),
                   zones       |-> updates.zones,
                   rooms       |-> List(current.rooms),
                   entries     |-> updates.entries,
                   days        |-> updates.days,
                   active      |-> DictGet(updates, "active", current.active),
                   metadata    |-> DictGet(updates, "metadata", Dict(EmptyDict))],
                  ts)
         ELSE LET after ==
                    IF "name" \in DOMAIN updates \/ "active" \in DOMAIN updates
                    THEN [db EXCEPT !.schedules =
                              PartialUpdate(@, schedule_id, updates, ts)]
                    ELSE db
              IN [raised |-> FALSE,
                  db     |-> after,
                  rets   |-> GetSchedule(ReadBeforeCommit(db, after), schedule_id)]

\* update_schedule(schedule_id, **updates)
UpdateOutcome(db, schedule_id, updates, ts) ==
    LET currents == GetSchedule(db, schedule_id) IN
    IF NotFound(currents) THEN [raised |-> TRUE, db |-> db, rets |-> {None}]
    ELSE LET current == (CHOOSE c \in currents : TRUE).v IN
         IF {"zones", "entries", "days"} \subseteq DOMAIN updates
         THEN IF currents = {None}
              THEN \* current_schedule['name'] on None raises TypeError
                   [raised |-> TRUE, db |-> db, rets |-> {None}]
              ELSE
              CreateOutcome(db,
                  [schedule_id |-> schedule_id,
                   name        |-> DictGet(updates, "name", current.name),
                   zones       |-> updates.zones,
                   rooms       |-> None,
                   entries     |-> updates.entries,
                   days        |-> updates.days,
                   active      |-> DictGet(updates, "active", current.active),
                   metadata    |-> DictGet(updates, "metadata", Dict(EmptyDict))],
                  ts)
         ELSE LET after ==
                    IF "name" \in DOMAIN updates \/ "active" \in DOMAIN updates
                    THEN [db EXCEPT !.schedules =
                              PartialUpdate(@, schedule_id, updates, ts)]
                    ELSE db
              IN [raised |-> FALSE,
                  db     |-> after,
                  rets   |-> GetSchedule(ReadBeforeCommit(db, after), schedule_id)]

\* DELETE FROM schedules WHERE id = ?  The child tables declare ON DELETE
\* CASCADE, which SQLite applies only under PRAGMA foreign_keys = ON; the
\* connection is opened without it, so only the schedules row goes
DeleteRows(db, schedule_id) ==
    [db EXCEPT !.schedules = {r \in @ : r.id # schedule_id}]

\* delete_schedule: returns cursor.rowcount > 0
DeleteOutcome(db, schedule_id) ==
    [raised |-> FALSE,
     db     |-> DeleteRows(db, schedule_id),
     rets   |-> {\E r \in db.schedules : r.id = schedule_id}]

\* _convert_legacy_periods: one entry per period
ConvertLegacyPeriods(legacy_schedule) ==
    LET periods == DictGet(legacy_schedule, "periods",
                           DictGet(legacy_schedule, "entries", List(<<>>))).v
        Entry(period) ==
            LET temperature == DictGet(period, "temperature", Num(20)) IN
            [time        |-> DictGet(period, "time",
                                     DictGet(period, "start", Str(S_0800))),
             temperature |-> temperature,
             action      |-> IF IsOff(temperature) THEN "off" ELSE "heat"]
    IN List([i \in 1..Len(periods) |-> Entry(periods[i])])

\* MigrateSingle without the `if self.get_schedule(schedule_id): return`
MigrateSingleAgain(db, legacy_schedule, ts) ==
    LET schedule_id == DictGet(legacy_schedule, "id", "") IN
    IF schedule_id = ""
    THEN [raised |-> FALSE, db |-> db]
    ELSE LET out == CreateOutcome(db,
                 [schedule_id |-> schedule_id,
                  name        |-> DictGet(legacy_schedule, "name", "Migrated Schedule"),
                  zones       |-> DictGet(legacy_schedule, "zones", List(<<>>)),
                  rooms       |-> None,
                  entries     |-> ConvertLegacyPeriods(legacy_schedule),
                  days        |-> DictGet(legacy_schedule, "days", List(<<>>)),
                  active      |-> DictGet(legacy_schedule, "active", TRUE),
                  metadata    |-> Dict(
                      [legacy_migrated     |-> TRUE,
                       original_created_at |-> DictGet(legacy_schedule, "created_at", None),
                       error               |-> DictGet(legacy_schedule, "error", None)])],
                 ts)
         IN [raised |-> out.raised, db |-> out.db]

\* _migrate_single_schedule: nothing without an id or when the id is stored
MigrateSingle(db, legacy_schedule, ts) ==
    LET schedule_id == DictGet(legacy_schedule, "id", "") IN
    IF schedule_id = "" \/ GetSchedule(db, schedule_id) # {None}
    THEN [raised |-> FALSE, db |-> db]
    ELSE LET out == CreateOutcome(db,
                 [schedule_id |-> schedule_id,
                  name        |-> DictGet(legacy_schedule, "name", "Migrated Schedule"),
                  zones       |-> DictGet(legacy_schedule, "zones", List(<<>>)),
                  rooms       |-> None,
                  entries     |-> ConvertLegacyPeriods(legacy_schedule),
                  days        |-> DictGet(legacy_schedule, "days", List(<<>>)),
                  active      |-> DictGet(legacy_schedule, "active", TRUE),
                  metadata    |-> Dict(
                      [legacy_migrated     |-> TRUE,
                       original_created_at |-> DictGet(legacy_schedule, "created_at", None),
                       error               |-> DictGet(legacy_schedule, "error", None)])],
                 ts)
         IN [raised |-> out.raised, db |-> out.db]

\* migrate_from_legacy_storage: every record of the directory in listing
\* order; an exception of one record is logged and the loop goes on
RECURSIVE MigrateAll(_, _, _)
MigrateAll(db, records, ts) ==
    IF Len(records) = 0 THEN db
    ELSE MigrateAll(MigrateSingle(db, Head(records), ts).db, Tail(records), ts)

\* the tables take the value db
Store(db) ==
    /\ schedules' = db.schedules
    /\ schedule_zones' = db.zones
    /\ schedule_rooms' = db.rooms
    /\ schedule_entries' = db.entries

\* the record of a call; again tells that the call before it was the same
\* call with the same arguments
Call(op, args, raised, ret, of) ==
    [op |-> op, args |-> args, raised |-> raised, ret |-> ret, of |-> of,
     again |-> last.op = op /\ last.args = args]

create_schedule(a) ==
    LET out == CreateOutcome(DB, a, now) IN
    /\ Store(out.db)
    /\ \E ret \in out.rets : last' = Call("create_schedule", a, out.raised, ret, "-")
    /\ UNCHANGED <<files, now, automations, pushes>>

update_schedule(schedule_id, updates) ==
    LET out == UpdateOutcome(DB, schedule_id, updates, now) IN
    /\ Store(out.db)
    /\ \E ret \in out.rets :
          last' = Call("update_schedule",
                       [schedule_id |-> schedule_id, updates |-> updates],
                       out.raised, ret, "-")
    /\ UNCHANGED <<files, now, automations, pushes>>

\* the most entry rows a schedule may have when it is read and written back
MaxRoundRows == 4

\* get_schedule(schedule_id), then create_schedule for the same id with the
\* zones, rooms, entries and days of what it returned
read_and_create(schedule_id) ==
    \E cur \in GetSchedule(DB, schedule_id) :
        /\ cur # None
        /\ Len(cur.v.entries) <= MaxRoundRows
        /\ LET a   == [schedule_id |-> schedule_id, name |-> cur.v.name,
                       zones |-> List(cur.v.zones), rooms |-> List(cur.v.rooms),
                       entries |-> List(cur.v.entries), days |-> List(cur.v.days),
                       active |-> cur.v.active, metadata |-> None]
               out == CreateOutcome(DB, a, now)
           IN /\ Store(out.db)
              /\ \E ret \in out.rets :
                    last' = Call("read_and_create", a, out.raised, ret, "-")
        /\ UNCHANGED <<files, now, automations, pushes>>

delete_schedule(schedule_id) ==
    LET out == DeleteOutcome(DB, schedule_id) IN
    /\ Store(out.db)
    /\ \E ret \in out.rets :
          last' = Call("delete_schedule", [schedule_id |-> schedule_id],
                       out.raised, ret, "-")
    /\ UNCHANGED <<files, now, automations, pushes>>

migrate_from_legacy_storage(records) ==
    /\ Store(MigrateAll(DB, records, now))
    /\ last' = Call("migrate_from_legacy_storage", [records |-> records],
                    FALSE, None, "-")
    /\ UNCHANGED <<files, now, automations, pushes>>

get_schedule(schedule_id) ==
    /\ \E ret \in GetSchedule(DB, schedule_id) :
          last' = Call("get_schedule", [schedule_id |-> schedule_id], FALSE, ret, "-")
    /\ UNCHANGED <<files, tables, now, automations, pushes>>

get_all_schedules ==
    /\ \E ret \in GetAllSchedules(DB) :
          last' = Call("get_all_schedules", None, FALSE, List(ret), "-")
    /\ UNCHANGED <<files, tables, now, automations, pushes>>

get_active_schedules_for_zone(zone_id) ==
    /\ \E ret \in GetActiveSchedulesForZone(DB, zone_id) :
          last' = Call("get_active_schedules_for_zone", [zone_id |-> zone_id],
                       FALSE, ret, "-")
    /\ UNCHANGED <<files, tables, now, automations, pushes>>

get_active_schedules_for_room(room_name) ==
    /\ \E ret \in GetActiveSchedulesForRoom(DB, room_name) :
          last' = Call("get_active_schedules_for_room", [room_name |-> room_name],
                       FALSE, ret, "-")
    /\ UNCHANGED <<files, tables, now, automations, pushes>>

get_zones_with_schedules ==
    /\ \E ret \in GetZonesWithSchedules(DB) :
          last' = Call("get_zones_with_schedules", None, FALSE, ret, "-")
    /\ UNCHANGED <<files, tables, now, automations, pushes>>

get_schedule_state_at_time(zone_id, day_of_week, time_minutes) ==
    /\ \E r \in GetScheduleStateAtTime(DB, zone_id, day_of_week, time_minutes) :
          last' = Call("get_schedule_state_at_time",
                       [zone_id |-> zone_id, day_of_week |-> day_of_week,
                        time_minutes |-> time_minutes],
                       FALSE, r.ret, r.of)
    /\ UNCHANGED <<files, tables, now, automations, pushes>>

-----------------------------------------------------------------------------
(* SmartAutomationManager: the schedules that govern a zone *)

\* the text of the zone ids
ZoneText ==
    [z1 |-> <<"c","l","i","m","a","t","e",".","z","1">>,
     z2 |-> <<"c","l","i","m","a","t","e",".","t","a","d","o","_","z","2">>,
     z3 |-> <<"c","l","i","m","a","t","e",".","t","a","d","o","_","z","1">>]

S_climate == <<"c","l","i","m","a","t","e",".">>
S_tado == <<"t","a","d","o","_">>
S_smart == <<"s","m","a","r","t","_","r","a","d","i","a","t","o","r","_","t","h","e","r","m","o","s","t","a","t","_">>

\* s starts with sub
StartsWith(s, sub) == Len(sub) <= Len(s) /\ SubSeq(s, 1, Len(sub)) = sub

\* str.replace(sub, ''): every occurrence, found from the left, is removed
RECURSIVE RemoveAll(_, _)
RemoveAll(s, sub) ==
    IF Len(s) = 0 THEN s
    ELSE IF StartsWith(s, sub) THEN RemoveAll(SubSeq(s, Len(sub) + 1, Len(s)), sub)
    ELSE <<Head(s)>> \o RemoveAll(Tail(s), sub)

\* re.sub(r'[^a-zA-Z0-9_]', '', s)
KeepWordChars(s) ==
    SelectSeq(s, LAMBDA c : \/ c \in DOMAIN LowerOf
                           \/ c \in {LowerChars[i] : i \in 1..26}
                           \/ IsDigit(c)
                           \/ c = "_")

\* _get_zone_name: the zone id without 'climate.', 'tado_' and
\* 'smart_radiator_thermostat_', without characters other than letters,
\* digits and '_', in lower case
_get_zone_name(zone_id) ==
    Lower(KeepWordChars(
        RemoveAll(RemoveAll(RemoveAll(ZoneText[zone_id], S_climate), S_tado), S_smart)))

\* ha_client.entity_prefix followed by '_zone_'
S_prefix_zone == <<"t","a","d","o","_","l","o","c","a","l","_","z","o","n","e","_">>
S_consolidated == <<"_","c","o","n","s","o","l","i","d","a","t","e","d">>

\* f'{self.entity_prefix}_zone_{self._get_zone_name(zone_id)}_consolidated'
ConsolidatedId(zone_id) == S_prefix_zone \o _get_zone_name(zone_id) \o S_consolidated

\* HomeAssistantClient._update_zone_automations:
\* f'{self.entity_prefix}_zone_{self._get_zone_name(zone_id)}'
CombinedId(zone_id) == S_prefix_zone \o _get_zone_name(zone_id)

\* the names of the rooms of the roster that hold the zone, in roster order;
\* room['name'] of a room without a name raises KeyError (ok = FALSE)
RECURSIVE ZoneRooms(_, _)
ZoneRooms(rooms, zone_id) ==
    IF Len(rooms) = 0 THEN [ok |-> TRUE, names |-> <<>>]
    ELSE LET room    == Head(rooms)
             devices == DictGet(room, "devices", <<>>)
             holds   == \E i \in 1..Len(devices) :
                            /\ "entity_id" \in DOMAIN devices[i]
                            /\ devices[i].entity_id = zone_id
             rest    == ZoneRooms(Tail(rooms), zone_id)
         IN IF holds /\ "name" \notin DOMAIN room THEN [ok |-> FALSE, names |-> <<>>]
            ELSE IF ~rest.ok THEN rest
            ELSE IF holds THEN [rest EXCEPT !.names = <<room.name>> \o @]
            ELSE rest

\* the schedules of the rooms, room after room: the lists that may come out
RECURSIVE RoomSchedules(_, _)
RoomSchedules(db, names) ==
    IF Len(names) = 0 THEN {<<>>}
    ELSE {a \o b : a \in GetActiveSchedulesForRoom(db, Head(names)),
                   b \in RoomSchedules(db, Tail(names))}

\* UniqueSchedules with every schedule kept
UniqueSchedulesAll(found, kept) == kept \o found

\* "Remove duplicates based on schedule ID": the first schedule of each id
\* is kept, in order; a schedule with an empty id is dropped
RECURSIVE UniqueSchedules(_, _)
UniqueSchedules(found, kept) ==
    IF Len(found) = 0 THEN kept
    ELSE LET schedule_id == Head(found).v.id IN
         UniqueSchedules(Tail(found),
             IF schedule_id # "" /\ \A i \in 1..Len(kept) : kept[i].v.id # schedule_id
             THEN Append(kept, Head(found)) ELSE kept)

\* _get_all_schedules_for_zone: the lists it may return.  roster is what
\* ha_client.get_rooms_with_tado_devices() does in this call: it returns
\* rooms or it raises, and any exception gives the empty list.
GetAllSchedulesForZone(db, zone_id, roster) ==
    IF roster.raised THEN {<<>>}
    ELSE LET zone_rooms == ZoneRooms(roster.rooms, zone_id) IN
         IF ~zone_rooms.ok THEN {<<>>}
         ELSE {UniqueSchedules(zs \o rs, <<>>) :
                  zs \in GetActiveSchedulesForZone(db, zone_id),
                  rs \in RoomSchedules(db, zone_rooms.names)}

_get_all_schedules_for_zone(zone_id, roster) ==
    /\ \E ret \in GetAllSchedulesForZone(DB, zone_id, roster) :
          last' = Call("_get_all_schedules_for_zone",
                       [zone_id |-> zone_id, roster |-> roster], FALSE, List(ret), "-")
    /\ UNCHANGED <<files, tables, now, automations, pushes>>

-----------------------------------------------------------------------------
(* SmartAutomationManager: the consolidated automation of a zone.  The alias,
   the description and the logbook messages, which are display texts, are
   not kept.  A template, which the code writes as Jinja text, is kept as the
   values the text is built from. *)

\* the characters of the times get_schedule reports, in code point order
TimeChars == <<"-","0","1","2","3","4","5","6","7","8","9",":">>
CharRank(c) == CHOOSE i \in 1..Len(TimeChars) : TimeChars[i] = c

\* a < b for strings, as sorted() compares them
RECURSIVE StrLess(_, _)
StrLess(a, b) ==
    IF Len(b) = 0 THEN FALSE
    ELSE IF Len(a) = 0 THEN TRUE
    ELSE IF Head(a) = Head(b) THEN StrLess(Tail(a), Tail(b))
    ELSE CharRank(Head(a)) < CharRank(Head(b))

\* sorted(trigger_times)
Sorted(times) ==
    CHOOSE q \in Orders(times) :
        \A i, j \in 1..Len(q) : i < j => StrLess(q[i].v, q[j].v)

\* schedule.get('entries', schedule.get('periods', []))
EntriesOfSchedule(schedule) ==
    DictGet(schedule.v, "entries", DictGet(schedule.v, "periods", <<>>))

\* entry.get('time', entry.get('start', '08:00'))
TimeOfEntry(entry) == DictGet(entry, "time", DictGet(entry, "start", Str(S_0800)))

\* trigger_times: the set of the times of all entries of all schedules
TriggerTimes(zone_schedules) ==
    UNION {{TimeOfEntry(EntriesOfSchedule(zone_schedules[i])[k]) :
                k \in 1..Len(EntriesOfSchedule(zone_schedules[i]))} :
           i \in 1..Len(zone_schedules)}

\* time_str.replace(":", "_")
ColonToUnderscore(t) == [i \in 1..Len(t) |-> IF t[i] = ":" THEN "_" ELSE t[i]]

\* TriggerTimes as a list that holds the time of every entry, not a set
TriggersPerEntry(zone_schedules) ==
    LET RECURSIVE Times(_, _)
        Times(i, k) ==
            IF i > Len(zone_schedules) THEN <<>>
            ELSE IF k > Len(EntriesOfSchedule(zone_schedules[i])) THEN Times(i + 1, 1)
            ELSE <<TimeOfEntry(EntriesOfSchedule(zone_schedules[i])[k])>> \o Times(i, k + 1)
        q == Times(1, 1)
    IN [i \in 1..Len(q) |->
           [platform |-> "time", at |-> q[i],
            id |-> Str(<<"t","i","m","e","_">> \o ColonToUnderscore(q[i].v))]]

\* one time trigger per time, in sorted order
Triggers(zone_schedules) ==
    LET q == Sorted(TriggerTimes(zone_schedules)) IN
    [i \in 1..Len(q) |->
        [platform |-> "time", at |-> q[i],
         id |-> Str(<<"t","i","m","e","_">> \o ColonToUnderscore(q[i].v))]]

\* AwayHomeConditions with the state condition added whatever the section says
AwayHomeConditionsAlways(away_home_config) ==
    <<[condition |-> "state",
       entity_id |-> DictGet(away_home_config, "entity_id", ""),
       state |-> DictGet(away_home_config, "home_state", "home"), parts |-> <<>>]>>

\* the 'away_home' section of ha_config is a dictionary with any of the keys
\* enabled, entity_id and home_state; an entity id is a string, "" the empty one
AwayHomeConditions(away_home_config) ==
    LET away_home_enabled == DictGet(away_home_config, "enabled", FALSE)
        away_entity_id    == DictGet(away_home_config, "entity_id", "")
        home_state        == DictGet(away_home_config, "home_state", "home")
    IN IF away_home_enabled /\ away_entity_id # ""
       THEN <<[condition |-> "state", entity_id |-> away_entity_id,
               state |-> home_state, parts |-> <<>>]>>
       ELSE <<>>

\* TemplateParts without the day condition: every part holds on every day
TemplatePartsAnyDay(zone_schedules) ==
    LET kept == {i \in 1..Len(zone_schedules) :
                    /\ DictGet(zone_schedules[i].v, "active", TRUE)
                    /\ Len(DictGet(zone_schedules[i].v, "days", <<>>)) > 0
                    /\ Len(EntriesOfSchedule(zone_schedules[i])) > 0}
        Place(n) == CHOOSE i \in kept : Cardinality({j \in kept : j <= i}) = n
    IN [n \in 1..Cardinality(kept) |->
          [days  |-> [d \in 1..7 |-> Str(DayNames[d])],
           times |-> [k \in 1..Len(EntriesOfSchedule(zone_schedules[Place(n)])) |->
                        TimeOfEntry(EntriesOfSchedule(zone_schedules[Place(n)])[k])]]]

\* _build_schedule_evaluation_template: one part (day in days and (time == t1
\* or time == t2 ...)) for each active schedule that has days and entries,
\* the parts joined by or; no part at all is the template "{{ false }}"
RECURSIVE TemplateParts(_)
TemplateParts(zone_schedules) ==
    IF Len(zone_schedules) = 0 THEN <<>>
    ELSE LET schedule      == Head(zone_schedules)
             schedule_days == DictGet(schedule.v, "days", <<>>)
             entries       == EntriesOfSchedule(schedule)
         IN (IF ~DictGet(schedule.v, "active", TRUE) THEN <<>>
             ELSE IF Len(schedule_days) = 0 \/ Len(entries) = 0 THEN <<>>
             ELSE <<[days  |-> schedule_days,
                     times |-> [k \in 1..Len(entries) |-> TimeOfEntry(entries[k])]]>>)
            \o TemplateParts(Tail(zone_schedules))

\* the template condition of the automation
TemplateCondition(zone_schedules) ==
    [condition |-> "template", entity_id |-> "", state |-> "",
     parts |-> TemplateParts(zone_schedules)]

DefaultTargetState == [temperature |-> Num(20), action |-> "heat", schedule_name |-> "Default"]

\* _build_target_state_template_safe: the target is written into the template
\* as constants taken from the first entry of the first active schedule that
\* has entries; float() of a text other than off raises
RECURSIVE TargetState(_)
TargetState(zone_schedules) ==
    IF Len(zone_schedules) = 0 THEN [raised |-> FALSE, value |-> DefaultTargetState]
    ELSE LET schedule == Head(zone_schedules)
             entries  == EntriesOfSchedule(schedule)
         IN IF DictGet(schedule.v, "active", TRUE) /\ Len(entries) > 0
            THEN LET temperature == DictGet(entries[1], "temperature", Num(20))
                     off == IsOff(temperature)
                 IN IF off
                    THEN [raised |-> FALSE,
                          value |-> [temperature |-> Num(16), action |-> "off",
                                     schedule_name |-> DictGet(schedule.v, "name", "Unnamed Schedule")]]
                    ELSE IF temperature.t = "num"
                    THEN [raised |-> FALSE,
                          value |-> [temperature |-> temperature, action |-> "heat",
                                     schedule_name |-> DictGet(schedule.v, "name", "Unnamed Schedule")]]
                    ELSE [raised |-> TRUE, value |-> DefaultTargetState]
            ELSE TargetState(Tail(zone_schedules))

\* _build_consolidated_automation_config: the triggers, the conditions (all of
\* which must hold) and the action, which sets the zone to target_state: hvac
\* mode off when its action is off, else its temperature and hvac mode heat
BuildConsolidatedConfig(zone_id, zone_schedules, away_home_config) ==
    LET target == TargetState(zone_schedules) IN
    [raised |-> target.raised,
     config |-> [trigger   |-> Triggers(zone_schedules),
                 condition |-> AwayHomeConditions(away_home_config)
                                  \o <<TemplateCondition(zone_schedules)>>,
                 action    |-> [target_state |-> target.value, entity_id |-> zone_id],
                 mode      |-> "single"]]

-----------------------------------------------------------------------------
(* SmartAutomationManager: the requests sent to Home Assistant.  automations
   is the set of automations Home Assistant holds: id, config, and active once
   a reload has loaded it.  How Home Assistant answers the requests of one
   zone is an input m, one answer for each kind of request: "ok", "error" (a
   status 500, nothing done) or "timeout" (requests raises, nothing done). *)

Without(P, automation_id) == {x \in P : x.id # automation_id}

Request(req, automation_id, status) ==
    [req |-> req, id |-> automation_id, status |-> status]

\* the number of numbered old ids tried for each pattern
OldIdsPerPattern == 10

S_schedule_ == <<"_","s","c","h","e","d","u","l","e","_">>
S_alias == <<"a","l","i","a","s",":">>

\* _delete_ha_automation: DELETE config/<id>, then, on an answer other than
\* 200, 204 or 404, POST services/automation/remove; True in every case
_delete_ha_automation(P, automation_id, m) ==
    LET present == \E x \in P : x.id = automation_id
        status  == CASE m.delete = "ok"    -> IF present THEN "200" ELSE "404"
                     [] m.delete = "error" -> "500"
                     [] OTHER              -> "timeout"
        first   == Request("DELETE config", automation_id, status)
    IN IF m.delete = "ok"
       THEN [P |-> Without(P, automation_id), log |-> <<first>>, ok |-> TRUE]
       ELSE IF m.delete = "timeout"
       THEN [P |-> P, log |-> <<first>>, ok |-> TRUE]
       ELSE [P   |-> IF m.remove = "ok" THEN Without(P, automation_id) ELSE P,
             log |-> <<first, Request("POST automation/remove", automation_id,
                                      CASE m.remove = "ok"    -> "200"
                                        [] m.remove = "error" -> "500"
                                        [] OTHER              -> "timeout")>>,
             ok  |-> TRUE]

\* the ids _cleanup_old_zone_automations tries: each pattern followed by 0..9
OldIds(zone_id) ==
    LET zone_name == _get_zone_name(zone_id)
        patterns  == <<S_prefix_zone \o zone_name,
                       S_prefix_zone \o zone_name \o S_schedule_>>
    IN [n \in 1..(2 * OldIdsPerPattern) |->
           patterns[((n - 1) \div OldIdsPerPattern) + 1]
               \o DecDigits((n - 1) % OldIdsPerPattern)]

\* the deletions of the ids in order.  A deletion removes at most its own
\* id and the ids differ, so what is left is what every deletion leaves, and
\* the log is the logs of the deletions one after the other, each of per_id
\* requests
DeleteAll(P, ids, m) ==
    LET per_id == IF m.delete = "error" THEN 2 ELSE 1 IN
    [P   |-> {x \in P : \A i \in 1..Len(ids) :
                           x \in _delete_ha_automation(P, ids[i], m).P},
     log |-> [n \in 1..(per_id * Len(ids)) |->
                _delete_ha_automation(P, ids[((n - 1) \div per_id) + 1], m)
                    .log[((n - 1) % per_id) + 1]],
     ok  |-> TRUE]

_cleanup_old_zone_automations(P, zone_id, m) == DeleteAll(P, OldIds(zone_id), m)

\* _remove_zone_automation with a delete answered 404 taken as a failure
_remove_zone_automation_strict(P, zone_id, m) ==
    LET gone == _delete_ha_automation(P, ConsolidatedId(zone_id), m) IN
    [gone EXCEPT !.ok = gone.log[1].status # "404"]

\* _remove_zone_automation
_remove_zone_automation(P, zone_id, m) ==
    _delete_ha_automation(P, ConsolidatedId(zone_id), m)

\* ServiceCreate that reports success whatever Home Assistant answers
ServiceCreateAlwaysOk(P, zone_id, automation_config, m, log) ==
    [P   |-> P,
     log |-> Append(log, Request("POST automation/create", <<>>,
                                 CASE m.create = "ok"    -> "200"
                                   [] m.create = "error" -> "500"
                                   [] OTHER              -> "timeout")),
     ok  |-> TRUE]

\* Method 2 of _create_ha_automation: POST services/automation/create with
\* the config and no id; Home Assistant names the automation after the alias
ServiceCreate(P, zone_id, automation_config, m, log) ==
    IF m.create = "ok"
    THEN [P   |-> Without(P, S_alias \o ZoneText[zone_id]) \cup
                     {[id |-> S_alias \o ZoneText[zone_id],
                       config |-> automation_config, active |-> TRUE]},
          log |-> Append(log, Request("POST automation/create", <<>>, "200")),
          ok  |-> TRUE]
    ELSE [P   |-> P,
          log |-> Append(log, Request("POST automation/create", <<>>,
                                      IF m.create = "error" THEN "500" ELSE "timeout")),
          ok  |-> FALSE]

\* _create_ha_automation that leaves the automations as they were when it
\* returns False
_create_ha_automation_atomic(P, zone_id, automation_id, automation_config, m) ==
    LET d      == _delete_ha_automation(P, automation_id, m)
        stored == Without(d.P, automation_id) \cup
                     {[id |-> automation_id, config |-> automation_config,
                       active |-> FALSE]}
        loaded == {[x EXCEPT !.active = TRUE] : x \in stored}
        Config(status) == Append(d.log, Request("POST config", automation_id, status))
        Reload(status) == Append(Config("200"), Request("POST automation/reload", <<>>, status))
        Kept(made) == IF made.ok THEN made ELSE [made EXCEPT !.P = P]
    IN CASE m.config = "timeout" -> [P |-> P, log |-> Config("timeout"), ok |-> FALSE]
         [] m.config = "error"   ->
                Kept(ServiceCreate(d.P, zone_id, automation_config, m, Config("500")))
         [] m.reload = "ok"      -> [P |-> loaded, log |-> Reload("200"), ok |-> TRUE]
         [] m.reload = "timeout" -> [P |-> P, log |-> Reload("timeout"), ok |-> FALSE]
         [] OTHER                ->
                Kept(ServiceCreate(stored, zone_id, automation_config, m, Reload("500")))

\* _create_ha_automation that gives up with False when the delete of the id
\* was not answered 200, 204 or 404
_create_ha_automation_checked(P, zone_id, automation_id, automation_config, m) ==
    LET d      == _delete_ha_automation(P, automation_id, m)
        stored == Without(d.P, automation_id) \cup
                     {[id |-> automation_id, config |-> automation_config,
                       active |-> FALSE]}
        loaded == {[x EXCEPT !.active = TRUE] : x \in stored}
        Config(status) == Append(d.log, Request("POST config", automation_id, status))
        Reload(status) == Append(Config("200"), Request("POST automation/reload", <<>>, status))
    IN CASE m.delete # "ok"      -> [P |-> d.P, log |-> d.log, ok |-> FALSE]
         [] m.config = "timeout" -> [P |-> d.P, log |-> Config("timeout"), ok |-> FALSE]
         [] m.config = "error"   ->
                ServiceCreate(d.P, zone_id, automation_config, m, Config("500"))
         [] m.reload = "ok"      -> [P |-> loaded, log |-> Reload("200"), ok |-> TRUE]
         [] m.reload = "timeout" -> [P |-> stored, log |-> Reload("timeout"), ok |-> FALSE]
         [] OTHER                ->
                ServiceCreate(stored, zone_id, automation_config, m, Reload("500"))

\* _create_ha_automation: delete the id, POST config/<id>, then reload; when
\* the config or the reload is answered with an error, Method 2; an exception
\* ends the call with False
_create_ha_automation(P, zone_id, automation_id, automation_config, m) ==
    LET d      == _delete_ha_automation(P, automation_id, m)
        stored == Without(d.P, automation_id) \cup
                     {[id |-> automation_id, config |-> automation_config,
                       active |-> FALSE]}
        loaded == {[x EXCEPT !.active = TRUE] : x \in stored}
        Config(status) == Append(d.log, Request("POST config", automation_id, status))
        Reload(status) == Append(Config("200"), Request("POST automation/reload", <<>>, status))
    IN CASE m.config = "timeout" -> [P |-> d.P, log |-> Config("timeout"), ok |-> FALSE]
         [] m.config = "error"   ->
                ServiceCreate(d.P, zone_id, automation_config, m, Config("500"))
         [] m.reload = "ok"      -> [P |-> loaded, log |-> Reload("200"), ok |-> TRUE]
         [] m.reload = "timeout" -> [P |-> stored, log |-> Reload("timeout"), ok |-> FALSE]
         [] OTHER                ->
                ServiceCreate(stored, zone_id, automation_config, m, Reload("500"))

\* _create_zone_consolidated_automation: build the config, clean up, create;
\* an exception while building ends the call with False before any request
_create_zone_consolidated_automation(P, zone_id, zone_schedules, away_home_config, m) ==
    LET built == BuildConsolidatedConfig(zone_id, zone_schedules, away_home_config)
        clean == _cleanup_old_zone_automations(P, zone_id, m)
        made  == _create_ha_automation(clean.P, zone_id, ConsolidatedId(zone_id),
                                       built.config, m)
    IN IF built.raised THEN [P |-> P, log |-> <<>>, ok |-> FALSE]
       ELSE [P |-> made.P, log |-> clean.log \o made.log, ok |-> made.ok]

\* SyncZone that never sets success to False
SyncZoneForgiving(P, db, step, away_home_config) ==
    {IF Len(zone_schedules) > 0
     THEN LET made == _create_zone_consolidated_automation(
                          P, step.zone_id, zone_schedules, away_home_config, step.m)
          IN [P |-> made.P, log |-> made.log, success |-> TRUE,
              zone_schedules |-> zone_schedules]
     ELSE LET gone == _remove_zone_automation(P, step.zone_id, step.m)
          IN [P |-> gone.P, log |-> gone.log, success |-> TRUE,
              zone_schedules |-> zone_schedules]
     : zone_schedules \in GetAllSchedulesForZone(db, step.zone_id, step.roster)}

\* SyncZone that sends nothing for a zone without schedules
SyncZoneKeep(P, db, step, away_home_config) ==
    {IF Len(zone_schedules) > 0
     THEN LET made == _create_zone_consolidated_automation(
                          P, step.zone_id, zone_schedules, away_home_config, step.m)
          IN [P |-> made.P, log |-> made.log, success |-> made.ok,
              zone_schedules |-> zone_schedules]
     ELSE [P |-> P, log |-> <<>>, success |-> TRUE, zone_schedules |-> zone_schedules]
     : zone_schedules \in GetAllSchedulesForZone(db, step.zone_id, step.roster)}

\* one zone of the loop of update_zone_automations; step holds the zone and
\* what the roster and Home Assistant answer while the zone is handled.  A
\* zone with schedules gets its automation created, a zone without has it
\* removed, and only a failed creation makes the result False
SyncZone(P, db, step, away_home_config) ==
    {IF Len(zone_schedules) > 0
     THEN LET made == _create_zone_consolidated_automation(
                          P, step.zone_id, zone_schedules, away_home_config, step.m)
          IN [P |-> made.P, log |-> made.log, success |-> made.ok,
              zone_schedules |-> zone_schedules]
     ELSE LET gone == _remove_zone_automation(P, step.zone_id, step.m)
          IN [P |-> gone.P, log |-> gone.log, success |-> TRUE,
              zone_schedules |-> zone_schedules]
     : zone_schedules \in GetAllSchedulesForZone(db, step.zone_id, step.roster)}

\* the loop over affected_zones: every outcome it may have, with the requests
\* of each zone and the schedules found for it
RECURSIVE SyncZones(_, _, _, _)
SyncZones(P, db, steps, away_home_config) ==
    IF Len(steps) = 0 THEN {[P |-> P, zones |-> <<>>, success |-> TRUE]}
    ELSE UNION {
           {[P       |-> rest.P,
             zones   |-> <<[zone_id |-> Head(steps).zone_id, log |-> one.log,
                            success |-> one.success,
                            zone_schedules |-> one.zone_schedules]>> \o rest.zones,
             success |-> one.success /\ rest.success]
            : rest \in SyncZones(one.P, db, Tail(steps), away_home_config)}
           : one \in SyncZone(P, db, Head(steps), away_home_config)}

-----------------------------------------------------------------------------
(* The calls made on the store *)

MaxEntries == 2
MaxDays == 2

\* the lists of at most n elements of S
ListsUpTo(S, n) == {List(q) : q \in UNION {[1..k -> S] : k \in 0..n}}

ScheduleIds == {"s1", "s2"}
ZoneIds == {"z1", "z2"}

S_xyz == <<"x","y","z">>
S_Tue == <<"T","u","e">>
S_r1 == <<"r","1">>
S_r1a1 == <<"r","1","|","a","1">>
S_0600 == <<"0","6",":","0","0">>
S_1700 == <<"1","7",":","0","0">>

E_0600_20 == [time |-> Str(S_0600), temperature |-> Num(20)]
E_0800_16 == [time |-> Str(S_0800), temperature |-> Num(16)]
E_1700_21 == [time |-> Str(S_1700), temperature |-> Num(21)]

\* the callers whose mutation calls may run at the same time
Procs == {"p1", "p2"}

\* a caller that is not inside update_zone_automations.  pc is the request
\* the caller sends next ("True" and "False": the value its call returned),
\* config the config it compiled (None while it removes), wrote 2 when its
\* config request was the last one stored, 1 when it was stored and another
\* was stored after it, raced whether another call was under way during it.
\* A removal that deleted the automation of the zone counts as stored.  A
\* caller that has committed a mutation of its own and has not yet entered
\* update_zone_automations is at "committed"; superseded tells that a
\* caller committed a mutation after this push had read the schedules
PushIdle == [pc |-> "idle", zone_id |-> "-", config |-> None, wrote |-> 0,
             raced |-> FALSE, superseded |-> FALSE]

Init ==
    /\ schedules = {}
    /\ schedule_zones = {}
    /\ schedule_rooms = {}
    /\ schedule_entries = EmptyBag
    /\ now = 0
    /\ automations = {}
    /\ pushes = [p \in Procs |-> PushIdle]
    /\ files = {}
    /\ last = [op |-> "init", args |-> None, raised |-> FALSE, ret |-> None,
               of |-> "-", again |-> FALSE]

\* update_zone_automations(affected_zones), affected_zones being the zones of
\* steps in order
update_zone_automations(steps, away_home_config) ==
    /\ \E out \in SyncZones(automations, DB, steps, away_home_config) :
          /\ automations' = out.P
          /\ last' = Call("update_zone_automations",
                          [steps |-> steps, away_home |-> away_home_config],
                          FALSE, [success |-> out.success, zones |-> out.zones], "-")
    /\ UNCHANGED <<files, tables, now, pushes>>

\* HomeAssistantClient._update_zone_automations for one zone that has
\* schedules, Home Assistant answering every request well: the combined
\* automation of the zone is deleted and created under CombinedId
legacy_update_zone_automations(zone_id) ==
    /\ automations' = Without(automations, CombinedId(zone_id)) \cup
                         {[id |-> CombinedId(zone_id),
                           config |-> [alias |-> ZoneText[zone_id]],
                           active |-> TRUE]}
    /\ last' = Call("legacy_update_zone_automations", [zone_id |-> zone_id],
                    FALSE, TRUE, "-")
    /\ UNCHANGED <<files, tables, now, pushes>>

\* _remove_zone_automation(zone_id) called on its own
call_remove_zone_automation(zone_id, m) ==
    LET gone == _remove_zone_automation(automations, zone_id, m) IN
    /\ automations' = gone.P
    /\ last' = Call("_remove_zone_automation", [zone_id |-> zone_id, m |-> m],
                    FALSE, [success |-> gone.ok, log |-> gone.log], "-")
    /\ UNCHANGED <<files, tables, now, pushes>>

-----------------------------------------------------------------------------
(* HomeAssistantClient (src/src/homeassistant_client.py), the older client:
   a schedule is the file config/schedules/<id>.json holding schedule_data,
   here its id, its name, its zones in order, active, and error ("-" when
   schedule_data has no key 'error').  How Home Assistant answers the
   requests of one zone is an input, one answer for the deletion and one for
   the creation: "ok" or "error" (a status 500 for every method tried, nothing
   done). *)

S_push_failed == "Failed to create/update Home Assistant automations"

\* a storage that keeps the file an id already has
_save_schedule_to_storage_once(F, schedule_data) ==
    IF \E f \in F : f.id = schedule_data.id THEN F ELSE F \cup {schedule_data}

\* _save_schedule_to_storage: the file of the id is written anew
_save_schedule_to_storage(F, schedule_data) ==
    {f \in F : f.id # schedule_data.id} \cup {schedule_data}

\* next((s for s in schedules if s.get('id') == schedule_id), None), the value
\* of its 'zones', [] when there is no such schedule
OldZones(F, schedule_id) ==
    IF \E f \in F : f.id = schedule_id
    THEN (CHOOSE f \in F : f.id = schedule_id).zones
    ELSE <<>>

\* _build_zone_automation_config: the alias of the zone and the triggers of
\* the schedules that are active, here the schedules the triggers come from
_build_zone_automation_config(zone_id, zone_schedules) ==
    [alias     |-> ZoneText[zone_id],
     schedules |-> {s.id : s \in {x \in zone_schedules : x.active}}]

\* the loop body of _update_zone_automations for one zone: with schedules on
\* the zone its combined automation is deleted and created, success being
\* what the creation says; without, the automation is deleted
PushCombined(P, all_schedules, zone_id, m) ==
    LET zone_schedules == {s \in all_schedules :
                              \E i \in 1..Len(s.zones) : s.zones[i] = zone_id}
        automation_id  == CombinedId(zone_id)
        gone           == IF m.delete = "ok" THEN Without(P, automation_id) ELSE P
    IN IF zone_schedules # {}
       THEN [P  |-> IF m.create = "ok"
                    THEN Without(gone, automation_id) \cup
                            {[id     |-> automation_id,
                              config |-> _build_zone_automation_config(zone_id,
                                                                       zone_schedules),
                              active |-> TRUE]}
                    ELSE gone,
             ok |-> m.create = "ok",
             log |-> <<Request("delete", automation_id, m.delete),
                       Request("create", automation_id, m.create)>>]
       ELSE [P |-> gone, ok |-> TRUE,
             log |-> <<Request("delete", automation_id, m.delete)>>]

\* _update_zone_automations(affected_zones): the schedules are loaded once,
\* then the zones are pushed in order; success is False once a creation has
\* failed.  m is the answers of each zone
RECURSIVE _update_zone_automations(_, _, _, _)
_update_zone_automations(P, F, affected_zones, m) ==
    IF affected_zones = <<>>
    THEN [P |-> P, success |-> TRUE, pushed |-> <<>>, log |-> <<>>]
    ELSE LET zone_id == Head(affected_zones)
             one     == PushCombined(P, F, zone_id, m[zone_id])
             rest    == _update_zone_automations(one.P, F, Tail(affected_zones), m)
         IN [P       |-> rest.P,
             success |-> one.ok /\ rest.success,
             pushed  |-> <<zone_id>> \o rest.pushed,
             log     |-> one.log \o rest.log]

\* the zones the schedule has after the update only
AffectedOrdersNewOnly(old_zones, new_zones) ==
    LET S == {new_zones[i] : i \in 1..Len(new_zones)}
    IN {s \in [1..Cardinality(S) -> S] : \A z \in S : \E i \in DOMAIN s : s[i] = z}

\* list(set(old_zones + new_zones)): each zone once, in an order that
\* Python does not fix
AffectedOrders(old_zones, new_zones) ==
    LET both == old_zones \o new_zones
        S    == {both[i] : i \in 1..Len(both)}
    IN {s \in [1..Cardinality(S) -> S] : \A z \in S : \E i \in DOMAIN s : s[i] = z}

\* HomeAssistantClient.create_schedule(schedule_data); uuid is the first 8
\* characters of the uuid4 drawn, which no schedule has yet
client_create_schedule(schedule_data, uuid, m) ==
    LET first == [schedule_data EXCEPT !.id = uuid, !.active = TRUE]
        F1    == _save_schedule_to_storage(files, first)
        push  == _update_zone_automations(automations, F1, first.zones, m)
        final == IF push.success THEN first
                 ELSE [first EXCEPT !.active = FALSE, !.error = S_push_failed]
    IN /\ \A f \in files : f.id # uuid
       /\ files' = IF push.success THEN F1 ELSE _save_schedule_to_storage(F1, final)
       /\ automations' = push.P
       /\ last' = Call("client.create_schedule",
                       [schedule_data |-> schedule_data, m |-> m], FALSE,
                       [schedule |-> final, saved_first |-> F1,
                        pushed |-> push.pushed, log |-> push.log,
                        success |-> push.success], uuid)
       /\ UNCHANGED <<tables, now, pushes>>

\* HomeAssistantClient.update_schedule(schedule_id, schedule_data)
client_update_schedule(schedule_id, schedule_data, m) ==
    LET old_zones == OldZones(files, schedule_id)
        first     == [schedule_data EXCEPT !.id = schedule_id]
        F1        == _save_schedule_to_storage(files, first)
    IN \E affected_zones \in AffectedOrders(old_zones, first.zones) :
          LET push  == _update_zone_automations(automations, F1, affected_zones, m)
              final == IF push.success THEN [first EXCEPT !.active = TRUE]
                       ELSE [first EXCEPT !.active = FALSE, !.error = S_push_failed]
          IN /\ files' = _save_schedule_to_storage(F1, final)
             /\ automations' = push.P
             /\ last' = Call("client.update_schedule",
                             [schedule_id |-> schedule_id,
                              schedule_data |-> schedule_data, m |-> m], FALSE,
                             [schedule |-> final, old_zones |-> old_zones,
                              pushed |-> push.pushed, log |-> push.log,
                              success |-> push.success], schedule_id)
             /\ UNCHANGED <<tables, now, pushes>>

\* HomeAssistantClient.delete_schedule(schedule_id)
client_delete_schedule(schedule_id, m) ==
    LET affected_zones == OldZones(files, schedule_id)
        F1   == {f \in files : f.id # schedule_id}
        push == _update_zone_automations(automations, F1, affected_zones, m)
    IN /\ files' = F1
       /\ automations' = push.P
       /\ last' = Call("client.delete_schedule",
                       [schedule_id |-> schedule_id, m |-> m], FALSE,
                       [success |-> TRUE, automation_updated |-> push.success,
                        old_zones |-> affected_zones,
                        pushed |-> push.pushed, log |-> push.log], schedule_id)
       /\ UNCHANGED <<tables, now, pushes>>

-----------------------------------------------------------------------------
(* update_zone_automations for one zone, request by request, as it runs when
   several callers are inside it at once: nothing is locked, so the requests
   of the callers reach Home Assistant in any order.  Each request takes its
   answer as an input. *)

Mid(pc) == pc \notin {"idle", "True", "False"}

\* AfterStep with the delete of the id sent after the config request
AfterStepDeleteLate(pc, answer) ==
    CASE pc = "begin"   -> "cleanup"
      [] pc = "cleanup" -> "config"
      [] pc = "delete"  -> "reload"
      [] pc = "config"  -> (CASE answer = "ok"    -> "delete"
                              [] answer = "error" -> "create"
                              [] OTHER            -> "False")
      [] pc = "reload"  -> (CASE answer = "ok"    -> "True"
                              [] answer = "error" -> "create"
                              [] OTHER            -> "False")
      [] OTHER          -> IF answer = "ok" THEN "True" ELSE "False"

\* what a push does after the request pc was answered: the cleanup, the
\* delete of the id, the config request, then the reload, Method 2 after an
\* error status of the config request or the reload, False after an
\* exception, True after a reload or a create service answered 200
AfterStep(pc, answer) ==
    CASE pc = "begin"   -> "cleanup"
      [] pc = "cleanup" -> "delete"
      [] pc = "delete"  -> "config"
      [] pc = "config"  -> (CASE answer = "ok"    -> "reload"
                              [] answer = "error" -> "create"
                              [] OTHER            -> "False")
      [] pc = "reload"  -> (CASE answer = "ok"    -> "True"
                              [] answer = "error" -> "create"
                              [] OTHER            -> "False")
      [] OTHER          -> IF answer = "ok" THEN "True" ELSE "False"

\* caller p enters update_zone_automations([zone_id]): it reads the
\* schedules of the zone and, when there are some, compiles the config
push_begin(p, zone_id, roster) ==
    /\ pushes[p].pc \in {"idle", "committed"}
    /\ \E zone_schedules \in GetAllSchedulesForZone(DB, zone_id, roster) :
          LET built == BuildConsolidatedConfig(zone_id, zone_schedules, EmptyDict)
              raced == \E q \in Procs \ {p} : Mid(pushes[q].pc)
              mine  == [pc      |-> CASE Len(zone_schedules) = 0 -> "remove"
                                      [] built.raised            -> "False"
                                      [] OTHER                   -> AfterStep("begin", "ok"),
                        zone_id |-> zone_id,
                        config  |-> IF Len(zone_schedules) = 0 \/ built.raised
                                    THEN None ELSE built.config,
                        wrote   |-> 0,
                        raced   |-> raced,
                        superseded |-> FALSE]
          IN pushes' = [q \in Procs |->
                          IF q = p THEN mine
                          ELSE [pushes[q] EXCEPT !.raced = @ \/ Mid(pushes[q].pc)]]
    /\ UNCHANGED <<files, tables, now, automations, last>>

\* the zone has no schedules: _remove_zone_automation, and the call is over
push_remove(p, m) ==
    LET gone    == _remove_zone_automation(automations, pushes[p].zone_id, m).P
        removed == \A x \in gone : x.id # ConsolidatedId(pushes[p].zone_id)
    IN /\ pushes[p].pc = "remove"
       /\ automations' = gone
       /\ pushes' = [q \in Procs |->
                       IF q = p
                       THEN [pushes[q] EXCEPT !.pc = "True",
                                              !.wrote = IF removed THEN 2 ELSE @]
                       ELSE [pushes[q] EXCEPT
                               !.wrote = IF removed /\ @ = 2
                                            /\ pushes[q].zone_id = pushes[p].zone_id
                                         THEN 1 ELSE @]]
       /\ UNCHANGED <<files, tables, now, last>>

\* _cleanup_old_zone_automations
push_cleanup(p, m) ==
    /\ pushes[p].pc = "cleanup"
    /\ automations' = _cleanup_old_zone_automations(automations, pushes[p].zone_id, m).P
    /\ pushes' = [pushes EXCEPT ![p].pc = AfterStep("cleanup", "ok")]
    /\ UNCHANGED <<files, tables, now, last>>

\* self._delete_ha_automation(automation_id, headers) of _create_ha_automation
push_delete(p, m) ==
    /\ pushes[p].pc = "delete"
    /\ automations' = _delete_ha_automation(automations,
                                            ConsolidatedId(pushes[p].zone_id), m).P
    /\ pushes' = [pushes EXCEPT ![p].pc = AfterStep("delete", "ok")]
    /\ UNCHANGED <<files, tables, now, last>>

\* config requests that leave the config an id already has
push_config_first_kept(p, answer) ==
    /\ pushes[p].pc = "config"
    /\ automations' =
          IF answer = "ok" /\ \A x \in automations :
                                x.id # ConsolidatedId(pushes[p].zone_id)
          THEN automations \cup
                  {[id |-> ConsolidatedId(pushes[p].zone_id),
                    config |-> pushes[p].config, active |-> FALSE]}
          ELSE automations
    /\ pushes' = [q \in Procs |->
                    IF q = p
                    THEN [pushes[q] EXCEPT !.pc = AfterStep("config", answer),
                                           !.wrote = IF answer = "ok" THEN 2 ELSE @]
                    ELSE [pushes[q] EXCEPT
                            !.wrote = IF answer = "ok" /\ @ = 2
                                         /\ pushes[q].zone_id = pushes[p].zone_id
                                      THEN 1 ELSE @]]
    /\ UNCHANGED <<files, tables, now, last>>

\* POST config/<id>: answered 200 the config is stored under the id in place
\* of what was there
push_config(p, answer) ==
    /\ pushes[p].pc = "config"
    /\ automations' =
          IF answer = "ok"
          THEN Without(automations, ConsolidatedId(pushes[p].zone_id)) \cup
                  {[id |-> ConsolidatedId(pushes[p].zone_id),
                    config |-> pushes[p].config, active |-> FALSE]}
          ELSE automations
    /\ pushes' = [q \in Procs |->
                    IF q = p
                    THEN [pushes[q] EXCEPT !.pc = AfterStep("config", answer),
                                           !.wrote = IF answer = "ok" THEN 2 ELSE @]
                    ELSE [pushes[q] EXCEPT
                            !.wrote = IF answer = "ok" /\ @ = 2
                                         /\ pushes[q].zone_id = pushes[p].zone_id
                                      THEN 1 ELSE @]]
    /\ UNCHANGED <<files, tables, now, last>>

\* POST services/automation/reload: answered 200 what is stored is loaded
push_reload(p, answer) ==
    /\ pushes[p].pc = "reload"
    /\ automations' = IF answer = "ok"
                      THEN {[x EXCEPT !.active = TRUE] : x \in automations}
                      ELSE automations
    /\ pushes' = [pushes EXCEPT ![p].pc = AfterStep("reload", answer)]
    /\ UNCHANGED <<files, tables, now, last>>

\* Method 2, POST services/automation/create, here never answered 200
push_create(p, answer) ==
    /\ pushes[p].pc = "create"
    /\ answer # "ok"
    /\ automations' = ServiceCreate(automations, pushes[p].zone_id, pushes[p].config,
                                    [create |-> answer], <<>>).P
    /\ pushes' = [pushes EXCEPT ![p].pc = AfterStep("create", answer)]
    /\ UNCHANGED <<files, tables, now, last>>

\* a caller's mutation: it commits create_schedule(a) and is then to push
\* the zones of the schedule; the pushes that have read the schedules
\* before the commit are superseded
caller_create(p, a) ==
    LET out == CreateOutcome(DB, a, now) IN
    /\ pushes[p].pc = "idle"
    /\ ~out.raised
    /\ Store(out.db)
    /\ \E ret \in out.rets : last' = Call("create_schedule", a, out.raised, ret, p)
    /\ pushes' = [q \in Procs |->
                    IF q = p THEN [PushIdle EXCEPT !.pc = "committed"]
                    ELSE [pushes[q] EXCEPT
                            !.superseded = @ \/ pushes[q].pc \notin {"idle", "committed"}]]
    /\ UNCHANGED <<files, now, automations>>

\* a caller's mutation: it commits delete_schedule(schedule_id) of a schedule
\* there is and is then to push the zones the schedule had
caller_delete(p, schedule_id) ==
    LET out == DeleteOutcome(DB, schedule_id) IN
    /\ pushes[p].pc = "idle"
    /\ \E x \in schedules : x.id = schedule_id
    /\ ~out.raised
    /\ Store(out.db)
    /\ \E ret \in out.rets :
          last' = Call("delete_schedule", [schedule_id |-> schedule_id],
                       out.raised, ret, p)
    /\ pushes' = [q \in Procs |->
                    IF q = p THEN [PushIdle EXCEPT !.pc = "committed"]
                    ELSE [pushes[q] EXCEPT
                            !.superseded = @ \/ pushes[q].pc \notin {"idle", "committed"}]]
    /\ UNCHANGED <<files, now, automations>>

\* the caller has its result and leaves
push_return(p) ==
    /\ pushes[p].pc \in {"True", "False"}
    /\ pushes' = [pushes EXCEPT ![p] = PushIdle]
    /\ UNCHANGED <<files, tables, now, automations, last>>

\* a condition of an automation at a weekday (0 is Monday) and a time "HH:MM"
\* while the presence entity has a state.  The template tests the day with
\* "in" on the JSON text of the days, which for the three-letter day names
\* get_schedule reports is membership in the list
ConditionHolds(c, weekday, time, presence) ==
    IF c.condition = "state"
    THEN c.entity_id = presence.entity_id /\ c.state = presence.state
    ELSE \E i \in 1..Len(c.parts) :
            /\ \E d \in 1..Len(c.parts[i].days) : c.parts[i].days[d] = Str(DayNames[weekday + 1])
            /\ \E k \in 1..Len(c.parts[i].times) : c.parts[i].times[k] = time

\* the service calls of the action: the choose on target_state.action
Dispatch(action) ==
    IF action.target_state.action = "off"
    THEN <<[service |-> "climate.set_hvac_mode", entity_id |-> action.entity_id,
            temperature |-> None, hvac_mode |-> "off"]>>
    ELSE <<[service |-> "climate.set_temperature", entity_id |-> action.entity_id,
            temperature |-> action.target_state.temperature, hvac_mode |-> ""],
           [service |-> "climate.set_hvac_mode", entity_id |-> action.entity_id,
            temperature |-> None, hvac_mode |-> "heat"]>>

\* Home Assistant reaches a time at which an active automation has a trigger:
\* the action runs when every condition holds
fire(automation_id, weekday, time, presence) ==
    /\ \E x \in automations :
          /\ x.id = automation_id
          /\ x.active
          /\ \E i \in 1..Len(x.config.trigger) : x.config.trigger[i].at = time
          /\ LET ran == \A i \in 1..Len(x.config.condition) :
                            ConditionHolds(x.config.condition[i], weekday, time, presence)
             IN last' = Call("fire",
                             [automation_id |-> automation_id, weekday |-> weekday,
                              time |-> time, presence |-> presence],
                             FALSE,
                             [ran |-> ran,
                              dispatched |-> IF ran THEN Dispatch(x.config.action) ELSE <<>>],
                             "-")
    /\ UNCHANGED <<files, tables, now, automations, pushes>>

(* Spec: the handlers on two schedules.  s1 is created with one argument at a
   time varied around a plain call, among them the calls that raise part-way;
   s2 is the other schedule. *)

Plain(schedule_id) ==
    [schedule_id |-> schedule_id, name |-> "A", zones |-> List(<<"z1">>),
     rooms |-> None, entries |-> List(<<E_0600_20>>), days |-> List(<<Str(S_mon)>>),
     active |-> TRUE, metadata |-> None]

CreateArgs ==
    LET p == Plain("s1") IN
    {p, Plain("s2"),
     [p EXCEPT !.name = "B"],
     [p EXCEPT !.active = FALSE],
     [p EXCEPT !.metadata = Dict([note |-> Str(<<"n">>)])],
     [p EXCEPT !.zones = List(<<"z1", "z2">>)],
     [p EXCEPT !.zones = List(<<"z1", "z1">>)],
     [p EXCEPT !.rooms = List(<<Str(S_r1a1)>>)],
     [p EXCEPT !.zones = None, !.rooms = List(<<Str(S_r1)>>)],
     [p EXCEPT !.rooms = List(<<Str(S_r1a1), Str(S_r1)>>)],
     [p EXCEPT !.entries = List(<<>>)],
     [p EXCEPT !.days = List(<<Str(S_mon), None>>)],
     [Plain("s2") EXCEPT !.zones = List(<<"z2">>), !.days = List(<<None>>)]}

UpdateArgs ==
    {[name |-> "B"], [active |-> FALSE], [name |-> "A", active |-> TRUE],
     [zones |-> List(<<"z2">>)],
     [zones |-> List(<<"z2">>), entries |-> List(<<E_1700_21>>),
      days |-> List(<<Str(S_tue)>>)],
     [zones |-> List(<<"z2", "z2">>), entries |-> List(<<E_1700_21>>),
      days |-> List(<<Str(S_tue)>>), active |-> FALSE]}

Legacy1 ==
    [id |-> "s1", name |-> "L", zones |-> List(<<"z1">>),
     days |-> List(<<Str(S_mon)>>),
     periods |-> List(<<[start |-> Str(<<"0","7",":","0","0">>), temperature |-> Num(20)]>>),
     active |-> TRUE, created_at |-> Str(<<"2","0","2","4">>)]
Legacy2 ==
    [id |-> "s2", zones |-> List(<<"z1", "z1">>), days |-> List(<<Str(S_mon)>>),
     periods |-> List(<<[time |-> Str(S_0800), temperature |-> Str(<<"O","F","F">>)]>>)]
LegacyDirs == {<<Legacy1>>, <<Legacy2, Legacy1>>}

Next ==
    \/ \E a \in CreateArgs : create_schedule(a)
    \/ \E id \in ScheduleIds, u \in UpdateArgs : update_schedule(id, u)
    \/ \E id \in ScheduleIds : delete_schedule(id)
    \/ \E d \in LegacyDirs : migrate_from_legacy_storage(d)
    \/ \E id \in ScheduleIds : get_schedule(id)
    \/ \E z \in ZoneIds : get_active_schedules_for_zone(z)
    \/ \E r \in {Str(S_r1)} : get_active_schedules_for_room(r)
    \/ get_zones_with_schedules
    \/ \E z \in ZoneIds, d \in {0, 1} : get_schedule_state_at_time(z, d, 1380)

Spec == Init /\ [][Next]_vars

(* SpecResolve: the resolver over two schedules whose entries, day, target
   and active flag vary. *)

ResolveEntryLists ==
    {List(<<E_0600_20>>), List(<<E_1700_21>>), List(<<E_0600_20, E_0800_16>>),
     List(<<E_0800_16, E_1700_21>>), List(<<E_0800_16, E_0800_16>>)}

ResolveCreateArgs ==
    {[Plain("s1") EXCEPT !.zones = t.zones, !.rooms = t.rooms, !.active = act,
                         !.entries = es, !.days = List(<<Str(d)>>)] :
        t \in {[zones |-> List(<<"z1">>), rooms |-> None],
               [zones |-> None, rooms |-> List(<<Str(S_r1)>>)]},
        act \in BOOLEAN,
        es \in ResolveEntryLists,
        d \in {S_mon, S_tue}}
    \cup
    {[Plain("s2") EXCEPT !.name = "B", !.entries = List(<<E_1700_21>>)],
     [Plain("s2") EXCEPT !.name = "B", !.zones = List(<<"z1", "z2">>)]}

QueryMinutes == {300, 360, 450, 1380}

NextResolve ==
    \/ \E a \in ResolveCreateArgs : create_schedule(a)
    \/ \E id \in ScheduleIds, act \in BOOLEAN : update_schedule(id, [active |-> act])
    \/ \E id \in ScheduleIds : delete_schedule(id)
    \/ \E z \in ZoneIds, d \in {0, 1}, m \in QueryMinutes :
          get_schedule_state_at_time(z, d, m)

SpecResolve == Init /\ [][NextResolve]_vars

(* SpecCreate: create_schedule on one schedule with every list of entries and
   of days within the bounds. *)

CreateEntries == {E_0600_20, [temperature |-> Str(S_off)]}
CreateDays == {Str(S_mon), Str(S_Tue), Str(S_xyz)}

CreateCreateArgs ==
    {[Plain("s1") EXCEPT !.entries = es, !.days = ds] :
        es \in ListsUpTo(CreateEntries, MaxEntries),
        ds \in ListsUpTo(CreateDays, MaxDays)}

NextCreate ==
    \E a \in CreateCreateArgs : create_schedule(a)

SpecCreate == Init /\ [][NextCreate]_vars

(* SpecCodec: the time codec on its own.  The first value is any zero-padded
   "HH:MM" of a day, any minute of a day, or one of a few values outside
   these; each step converts the value the previous step returned. *)

TwoDigits(n) == <<DigitChars[(n \div 10) + 1], DigitChars[(n % 10) + 1]>>
DayTimes == {Str(TwoDigits(h) \o <<":">> \o TwoDigits(m)) : h \in 0..23, m \in 0..59}
DayMinutes == {Num(m) : m \in 0..1439}
OtherTimes ==
    {Str(<<"6",":","0","0">>), Str(<<"2","4",":","0","0">>), Str(<<"0","7",":","6","0">>),
     Str(<<"a","b">>), Str(<<"0","7","3","0">>), Str(<<"0","7",":","3","0",":","0","0">>),
     Num(1440), Num(6000), None}

InitCodec ==
    /\ schedules = {}
    /\ schedule_zones = {}
    /\ schedule_rooms = {}
    /\ schedule_entries = EmptyBag
    /\ now = 0
    /\ automations = {}
    /\ pushes = [p \in Procs |-> PushIdle]
    /\ files = {}
    /\ last \in {[op |-> "input", args |-> None, raised |-> FALSE, ret |-> x,
                  of |-> "-", again |-> FALSE] : x \in DayTimes \cup DayMinutes \cup OtherTimes}

\* self._time_str_to_minutes(time_str) on the value returned before
call_time_str_to_minutes ==
    /\ last.ret.t # "num"
    /\ last' = Call("_time_str_to_minutes", last.ret, FALSE,
                    Num(_time_str_to_minutes(last.ret)), "-")
    /\ UNCHANGED <<files, tables, now, automations, pushes>>

\* self._minutes_to_time_str(minutes) on the value returned before
call_minutes_to_time_str ==
    /\ last.ret.t = "num"
    /\ last' = Call("_minutes_to_time_str", last.ret, FALSE,
                    _minutes_to_time_str(last.ret.v), "-")
    /\ UNCHANGED <<files, tables, now, automations, pushes>>

NextCodec ==
    \/ call_time_str_to_minutes
    \/ call_minutes_to_time_str

SpecCodec == InitCodec /\ [][NextCodec]_vars

(* SpecEntries: create_schedule on one schedule with one entry dict whose
   'time', 'temperature' and 'action' keys are each absent or take one of a
   few values, on a known or an unknown day. *)

EntryTimes ==
    {Str(S_0600), Str(<<"2","3",":","5","9">>), Str(<<"2","4",":","0","0">>),
     Str(<<"a","b">>)}
EntryTemperatures == {Num(20), None, Str(S_off), Str(<<"O","F","F">>)}
EntryActions == {"heat", "off", "auto"}

\* the entry dicts: each key absent or present with one of its values
EntryInputs ==
    {t @@ c @@ a :
        t \in {EmptyDict} \cup {[time |-> x] : x \in EntryTimes},
        c \in {EmptyDict} \cup {[temperature |-> x] : x \in EntryTemperatures},
        a \in {EmptyDict} \cup {[action |-> x] : x \in EntryActions}}

EntriesCreateArgs ==
    {[Plain("s1") EXCEPT !.entries = List(<<e>>), !.days = List(<<Str(d)>>)] :
        e \in EntryInputs, d \in {S_mon, S_sun, S_xyz}}

NextEntries ==
    \E a \in EntriesCreateArgs : create_schedule(a)

SpecEntries == Init /\ [][NextEntries]_vars

(* SpecMigrate: the legacy importer run over a few directories, between
   creations and deletions of the schedules it imports, as time passes. *)

MaxClock == 2

\* CURRENT_TIMESTAMP moves on
tick ==
    /\ now < MaxClock
    /\ now' = now + 1
    /\ UNCHANGED <<files, tables, automations, pushes, last>>

S_0700 == <<"0","7",":","0","0">>
S_0900 == <<"0","9",":","0","0">>
S_1800 == <<"1","8",":","0","0">>

\* the record of test_legacy_migration, with one period and with both
LegacyThreeDays ==
    [id |-> "s1", name |-> "Legacy Workday", zones |-> List(<<"z1">>),
     days |-> List(<<Str(S_mon), Str(S_tue), Str(S_wed)>>),
     periods |-> List(<<[start |-> Str(S_0700), end |-> Str(S_0900),
                         temperature |-> Num(20)]>>),
     active |-> TRUE, created_at |-> Str(<<"2","0","2","4">>)]
LegacyTwoPeriods ==
    [id |-> "s2", name |-> "Legacy Evening", zones |-> List(<<"z2">>),
     days |-> List(<<Str(S_mon)>>),
     periods |-> List(<<[start |-> Str(S_0700), temperature |-> Num(20)],
                        [start |-> Str(S_1800), temperature |-> Num(21)]>>),
     active |-> FALSE]
\* a period with the temperature 'Off', a period with no key at all
LegacyOff ==
    [id |-> "s2", name |-> "Legacy Off", zones |-> List(<<"z1">>),
     days |-> List(<<Str(S_sun)>>),
     entries |-> List(<<[time |-> Str(S_0600), temperature |-> Str(<<"O","f","f">>)],
                        EmptyDict>>)]
LegacyNoDays ==
    [id |-> "s2", name |-> "Legacy No Days",
     periods |-> List(<<[start |-> Str(S_0700), temperature |-> Num(20)]>>)]
LegacyNoId == [name |-> "Legacy No Id", days |-> List(<<Str(S_mon)>>)]

LegacyRecords ==
    {Legacy1, Legacy2, LegacyThreeDays, LegacyTwoPeriods, LegacyOff, LegacyNoDays,
     LegacyNoId}
MigrateDirs ==
    {<<Legacy1>>, <<Legacy2, Legacy1>>, <<LegacyThreeDays, LegacyTwoPeriods>>,
     <<LegacyOff, LegacyNoId>>, <<LegacyNoDays, LegacyThreeDays>>}

MigrateCreateArgs ==
    {Plain("s1"), [Plain("s2") EXCEPT !.name = "B", !.active = FALSE]}

NextMigrate ==
    \/ \E d \in MigrateDirs : migrate_from_legacy_storage(d)
    \/ \E a \in MigrateCreateArgs : create_schedule(a)
    \/ \E id \in ScheduleIds : delete_schedule(id)
    \/ \E id \in ScheduleIds : get_schedule(id)
    \/ tick

SpecMigrate == Init /\ [][NextMigrate]_vars

(* SpecGoverning: _get_all_schedules_for_zone over two schedules that are
   assigned to a zone, to rooms or to both, active or not, with rosters in
   which a zone is in no room, in one, in two, or in a room listed twice. *)

S_r2 == <<"r","2">>

Device(zone_id) == [entity_id |-> zone_id]
Rosters ==
    {[raised |-> TRUE, rooms |-> <<>>],
     [raised |-> FALSE, rooms |-> <<>>],
     [raised |-> FALSE, rooms |-> <<[name |-> Str(S_r1), devices |-> <<Device("z1")>>]>>],
     [raised |-> FALSE, rooms |-> <<[name |-> Str(S_r1), devices |-> <<Device("z2")>>],
                                    [name |-> Str(S_r2)]>>],
     [raised |-> FALSE, rooms |-> <<[name |-> Str(S_r1), devices |-> <<Device("z1")>>],
                                    [name |-> Str(S_r2),
                                     devices |-> <<Device("z2"), Device("z1")>>]>>],
     [raised |-> FALSE, rooms |-> <<[name |-> Str(S_r1), devices |-> <<Device("z1")>>],
                                    [name |-> Str(S_r1), devices |-> <<Device("z1")>>]>>],
     [raised |-> FALSE, rooms |-> <<[devices |-> <<Device("z2")>>]>>]}

GoverningTargets ==
    {[zones |-> List(<<"z1">>), rooms |-> None],
     [zones |-> List(<<"z2">>), rooms |-> None],
     [zones |-> None, rooms |-> List(<<Str(S_r1)>>)],
     [zones |-> List(<<"z1">>), rooms |-> List(<<Str(S_r1a1)>>)],
     [zones |-> None, rooms |-> List(<<Str(S_r1), Str(S_r2)>>)]}

GoverningCreateArgs ==
    {[Plain(id) EXCEPT !.zones = t.zones, !.rooms = t.rooms, !.active = act] :
        id \in ScheduleIds, t \in GoverningTargets, act \in BOOLEAN}

NextGoverning ==
    \/ \E a \in GoverningCreateArgs : create_schedule(a)
    \/ \E id \in ScheduleIds, act \in BOOLEAN : update_schedule(id, [active |-> act])
    \/ \E id \in ScheduleIds : delete_schedule(id)
    \/ \E z \in ZoneIds, r \in Rosters : _get_all_schedules_for_zone(z, r)

SpecGoverning == Init /\ [][NextGoverning]_vars

(* SpecSync: update_zone_automations while Home Assistant answers its requests
   well, with errors or not at all, over a zone schedule and a room schedule
   that are created, deactivated and deleted. *)

Answers(d, r, c, l, s) == [delete |-> d, remove |-> r, config |-> c, reload |-> l, create |-> s]
AllOk == Answers("ok", "ok", "ok", "ok", "ok")

SyncAnswers ==
    {AllOk,
     Answers("error", "ok", "ok", "ok", "ok"),
     Answers("error", "error", "ok", "ok", "ok"),
     Answers("timeout", "ok", "ok", "ok", "ok"),
     Answers("ok", "ok", "error", "ok", "ok"),
     Answers("ok", "ok", "error", "ok", "error"),
     Answers("ok", "ok", "timeout", "ok", "ok"),
     Answers("ok", "ok", "ok", "error", "ok"),
     Answers("ok", "ok", "ok", "timeout", "ok")}

RosterR1Z1 == [raised |-> FALSE, rooms |-> <<[name |-> Str(S_r1), devices |-> <<Device("z1")>>]>>]
RosterEmpty == [raised |-> FALSE, rooms |-> <<>>]

Step(zone_id, roster, m) == [zone_id |-> zone_id, roster |-> roster, m |-> m]

SyncSteps ==
    {<<Step("z1", RosterR1Z1, m)>> : m \in SyncAnswers}
    \cup {<<Step("z2", RosterR1Z1, AllOk)>>,
          <<Step("z1", RosterEmpty, AllOk)>>,
          <<Step("z1", RosterR1Z1, AllOk), Step("z2", RosterR1Z1, AllOk)>>,
          <<Step("z2", RosterR1Z1, AllOk),
            Step("z1", RosterR1Z1, Answers("ok", "ok", "error", "ok", "error"))>>}

SyncCreateArgs ==
    {Plain("s1"),
     [Plain("s2") EXCEPT !.name = "B", !.zones = None, !.rooms = List(<<Str(S_r1)>>)]}

NextSync ==
    \/ \E a \in SyncCreateArgs : create_schedule(a)
    \/ \E id \in ScheduleIds, act \in BOOLEAN : update_schedule(id, [active |-> act])
    \/ \E id \in ScheduleIds : delete_schedule(id)
    \/ \E steps \in SyncSteps : update_zone_automations(steps, EmptyDict)

SpecSync == Init /\ [][NextSync]_vars

(* SpecCompile: the automation of zone z1 compiled from a zone schedule and a
   second schedule that is a zone schedule or a room schedule, under the
   away/home settings a configuration file may hold, and run by Home
   Assistant on Monday and Tuesday at the times of the entries, at home and
   away. *)

E_0800_off == [time |-> Str(S_0800), temperature |-> Str(S_off)]
E_0800_18 == [time |-> Str(S_0800), temperature |-> Num(18)]

CompileCreateArgs ==
    {[Plain("s1") EXCEPT !.entries = List(<<E_0600_20, E_1700_21>>)],
     [Plain("s1") EXCEPT !.entries = List(<<E_0800_off>>),
                         !.days = List(<<Str(S_mon), Str(S_tue)>>)],
     [Plain("s2") EXCEPT !.name = "B", !.entries = List(<<E_0800_16, E_1700_21>>),
                         !.days = List(<<Str(S_tue)>>)],
     [Plain("s2") EXCEPT !.name = "B", !.zones = None, !.rooms = List(<<Str(S_r1)>>),
                         !.entries = List(<<E_0800_18>>)]}

AwayHomeConfigs ==
    {EmptyDict,
     [enabled |-> FALSE, entity_id |-> "person.a", home_state |-> "home"],
     [enabled |-> TRUE, entity_id |-> "person.a"],
     [enabled |-> TRUE, entity_id |-> "person.a", home_state |-> "on"],
     [enabled |-> TRUE, entity_id |-> "", home_state |-> "home"]}

CompileSteps ==
    {<<Step("z1", RosterR1Z1, AllOk)>>}

Presences == {[entity_id |-> "person.a", state |-> st] : st \in {"home", "not_home"}}

NextCompile ==
    \/ \E a \in CompileCreateArgs : create_schedule(a)
    \/ \E id \in ScheduleIds, act \in BOOLEAN : update_schedule(id, [active |-> act])
    \/ \E id \in ScheduleIds : delete_schedule(id)
    \/ \E steps \in CompileSteps, c \in AwayHomeConfigs : update_zone_automations(steps, c)
    \/ \E weekday \in {0, 1}, time \in {Str(S_0600), Str(S_0800), Str(S_1700)},
          presence \in Presences :
          fire(ConsolidatedId("z1"), weekday, time, presence)

SpecCompile == Init /\ [][NextCompile]_vars

(* SpecTie: the automation of zone z1 compiled from two zone schedules of
   Monday that both have an entry at 17:00 and differ at the other times, and
   run on Monday at 06:00 and 17:00. *)

E_1700_18 == [time |-> Str(S_1700), temperature |-> Num(18)]

TieCreateArgs ==
    {[Plain("s1") EXCEPT !.entries = List(<<E_0600_20, E_1700_21>>)],
     [Plain("s2") EXCEPT !.name = "B", !.entries = List(<<E_0800_16, E_1700_18>>)],
     [Plain("s2") EXCEPT !.name = "B", !.entries = List(<<E_1700_18>>)]}

AtHome == [entity_id |-> "person.a", state |-> "home"]

NextTie ==
    \/ \E a \in TieCreateArgs : create_schedule(a)
    \/ \E id \in ScheduleIds, act \in BOOLEAN : update_schedule(id, [active |-> act])
    \/ \E id \in ScheduleIds : delete_schedule(id)
    \/ update_zone_automations(<<Step("z1", RosterR1Z1, AllOk)>>, EmptyDict)
    \/ \E time \in {Str(S_0600), Str(S_1700)} :
          fire(ConsolidatedId("z1"), 0, time, AtHome)

SpecTie == Init /\ [][NextTie]_vars

(* SpecZones: update_zone_automations on lists of one or two different zones
   out of climate.z1, climate.tado_z2 and climate.tado_z1, each with a zone
   schedule of its own, while Home Assistant answers every request of a zone
   well or fails every create of a zone. *)

NoCreate == Answers("ok", "ok", "error", "ok", "error")

ZonesCreateArgs ==
    {Plain("s1"),
     [Plain("s2") EXCEPT !.name = "B", !.zones = List(<<"z3">>),
                         !.entries = List(<<E_0800_16>>)],
     [Plain("s2") EXCEPT !.name = "B", !.zones = List(<<"z2", "z3">>),
                         !.entries = List(<<E_0800_16>>)]}

ZonesSteps ==
    {<<Step(z, RosterEmpty, m)>> : z \in {"z1", "z2", "z3"}, m \in {AllOk, NoCreate}}
    \cup {<<Step(p[1], RosterEmpty, m), Step(p[2], RosterEmpty, n)>> :
             p \in {q \in {"z1", "z2", "z3"} \X {"z1", "z2", "z3"} : q[1] # q[2]},
             m \in {AllOk, NoCreate}, n \in {AllOk, NoCreate}}

NextZones ==
    \/ \E a \in ZonesCreateArgs : create_schedule(a)
    \/ \E id \in ScheduleIds : delete_schedule(id)
    \/ \E steps \in ZonesSteps : update_zone_automations(steps, EmptyDict)

SpecZones == Init /\ [][NextZones]_vars

(* SpecRemove: _remove_zone_automation for zones that have an automation in
   Home Assistant and zones that have none, under every answer to the delete. *)

NextRemove ==
    \/ \E a \in SyncCreateArgs : create_schedule(a)
    \/ \E id \in ScheduleIds : delete_schedule(id)
    \/ \E z \in ZoneIds, m \in {AllOk, Answers("ok", "ok", "ok", "error", "error")} :
          update_zone_automations(<<Step(z, RosterR1Z1, m)>>, EmptyDict)
    \/ \E z \in ZoneIds, m \in SyncAnswers : call_remove_zone_automation(z, m)

SpecRemove == Init /\ [][NextRemove]_vars

(* SpecLegacy: zones whose combined automation the older client has left in
   Home Assistant get their consolidated automation pushed. *)

LegacyAnswers ==
    {AllOk,
     Answers("error", "ok", "ok", "ok", "ok"),
     Answers("ok", "ok", "error", "ok", "ok"),
     Answers("ok", "ok", "ok", "timeout", "ok")}

NextLegacy ==
    \/ \E a \in SyncCreateArgs : create_schedule(a)
    \/ \E id \in ScheduleIds : delete_schedule(id)
    \/ \E z \in ZoneIds : legacy_update_zone_automations(z)
    \/ \E z \in ZoneIds, m \in LegacyAnswers :
          update_zone_automations(<<Step(z, RosterR1Z1, m)>>, EmptyDict)

SpecLegacy == Init /\ [][NextLegacy]_vars

(* SpecRace: two callers push zone z1 at the same time while the schedules of
   the zone change; Home Assistant answers each request on its own. *)

\* how Home Assistant may answer a delete: the answers to DELETE config and
\* to automation/remove
DeleteAnswers ==
    {Answers("ok", "ok", "ok", "ok", "ok"),
     Answers("error", "ok", "ok", "ok", "ok"),
     Answers("error", "error", "ok", "ok", "ok"),
     Answers("timeout", "ok", "ok", "ok", "ok")}

RaceCreateArgs ==
    {Plain("s1"),
     [Plain("s2") EXCEPT !.name = "B", !.entries = List(<<E_0800_16>>)]}

NextRace ==
    \/ \E a \in RaceCreateArgs : create_schedule(a)
    \/ \E p \in Procs : push_begin(p, "z1", RosterEmpty)
    \/ \E p \in Procs, m \in DeleteAnswers : push_remove(p, m)
    \/ \E p \in Procs, m \in DeleteAnswers : push_cleanup(p, m)
    \/ \E p \in Procs, m \in DeleteAnswers : push_delete(p, m)
    \/ \E p \in Procs, answer \in {"ok", "error", "timeout"} : push_config(p, answer)
    \/ \E p \in Procs, answer \in {"ok", "error", "timeout"} : push_reload(p, answer)
    \/ \E p \in Procs, answer \in {"error", "timeout"} : push_create(p, answer)
    \/ \E p \in Procs : push_return(p)

SpecRace == Init /\ [][NextRace]_vars

(* SpecMutate: two callers each commit a mutation of the schedules of zone
   z1 and then push z1, at the same time, Home Assistant answering every
   request well. *)

NextMutate ==
    \/ \E p \in Procs, a \in RaceCreateArgs : caller_create(p, a)
    \/ \E p \in Procs, id \in ScheduleIds : caller_delete(p, id)
    \/ \E p \in Procs : pushes[p].pc = "committed" /\ push_begin(p, "z1", RosterEmpty)
    \/ \E p \in Procs : push_remove(p, AllOk)
    \/ \E p \in Procs : push_cleanup(p, AllOk)
    \/ \E p \in Procs : push_delete(p, AllOk)
    \/ \E p \in Procs : push_config(p, "ok")
    \/ \E p \in Procs : push_reload(p, "ok")
    \/ \E p \in Procs : push_return(p)

SpecMutate == Init /\ [][NextMutate]_vars

(* SpecReplace: schedules with rooms and metadata are replaced in full, with
   and without new metadata, renamed, and looked up by room. *)

S_note == <<"n","o","t","e">>

ReplaceCreateArgs ==
    {[Plain("s1") EXCEPT !.rooms = List(<<Str(S_r1a1), Str(S_r2)>>),
                         !.metadata = Dict([note |-> Str(S_note)])],
     [Plain("s2") EXCEPT !.name = "B", !.zones = None, !.rooms = List(<<Str(S_r1)>>)],
     [Plain("s2") EXCEPT !.name = "B"]}

ReplaceUpdateArgs ==
    {[name |-> "C"],
     [zones |-> List(<<"z2">>), entries |-> List(<<E_1700_21>>)],
     [zones |-> List(<<"z2">>), entries |-> List(<<E_1700_21>>),
      days |-> List(<<Str(S_tue)>>)],
     [zones |-> List(<<>>), entries |-> List(<<E_1700_21>>),
      days |-> List(<<Str(S_tue)>>), metadata |-> Dict([owner |-> Str(S_r1)])],
     [zones |-> List(<<"z1", "z1">>), entries |-> List(<<E_1700_21>>),
      days |-> List(<<Str(S_tue)>>)]}

NextReplace ==
    \/ \E a \in ReplaceCreateArgs : create_schedule(a)
    \/ \E id \in ScheduleIds, u \in ReplaceUpdateArgs : update_schedule(id, u)
    \/ \E r \in {Str(S_r1), Str(S_r2)} : get_active_schedules_for_room(r)

SpecReplace == Init /\ [][NextReplace]_vars

(* SpecRound: schedules of one day and of two days, with zones and rooms,
   are read and written back. *)

RoundCreateArgs ==
    {Plain("s1"),
     [Plain("s1") EXCEPT !.rooms = List(<<Str(S_r1a1), Str(S_r2)>>),
                         !.entries = List(<<E_0600_20, E_0800_off>>)],
     [Plain("s2") EXCEPT !.name = "B", !.zones = List(<<"z1", "z2">>),
                         !.days = List(<<Str(S_mon), Str(S_tue)>>)],
     [Plain("s2") EXCEPT !.name = "B", !.entries = List(<<E_0600_20, E_1700_21>>),
                         !.days = List(<<Str(S_tue), Str(S_sun)>>)]}

NextRound ==
    \/ \E a \in RoundCreateArgs : create_schedule(a)
    \/ \E id \in ScheduleIds : delete_schedule(id)
    \/ \E id \in ScheduleIds : get_schedule(id)
    \/ \E id \in ScheduleIds : read_and_create(id)

SpecRound == Init /\ [][NextRound]_vars

(* SpecRoster: the automation of a zone is pushed while the roster of rooms
   is answered, is empty, is answered with a room that has no name, or is
   not answered at all. *)

RosterRaises == [raised |-> TRUE, rooms |-> <<>>]
RosterNoName == [raised |-> FALSE, rooms |-> <<[devices |-> <<Device("z1")>>]>>]

RosterSteps ==
    {<<Step(z, roster, AllOk)>> :
        z \in ZoneIds, roster \in {RosterR1Z1, RosterEmpty, RosterRaises, RosterNoName}}

NextRoster ==
    \/ \E a \in SyncCreateArgs : create_schedule(a)
    \/ \E id \in ScheduleIds, act \in BOOLEAN : update_schedule(id, [active |-> act])
    \/ \E id \in ScheduleIds : delete_schedule(id)
    \/ \E steps \in RosterSteps : update_zone_automations(steps, EmptyDict)

SpecRoster == Init /\ [][NextRoster]_vars

(* SpecAgree: the automation of zone z1 compiled from one schedule of one
   Monday entry, given as a temperature, as the temperature 'off', or as the
   action 'off' with a temperature, and run by Home Assistant. *)

E_0600_20_off == [time |-> Str(S_0600), temperature |-> Num(20), action |-> "off"]

AgreeCreateArgs ==
    {Plain("s1"),
     [Plain("s1") EXCEPT !.entries = List(<<E_0800_off>>)],
     [Plain("s1") EXCEPT !.entries = List(<<E_0600_20_off>>)],
     [Plain("s1") EXCEPT !.entries = List(<<E_1700_21>>),
                         !.days = List(<<Str(S_mon), Str(S_tue)>>)]}

NextAgree ==
    \/ \E a \in AgreeCreateArgs : create_schedule(a)
    \/ \E id \in {"s1"}, act \in BOOLEAN : update_schedule(id, [active |-> act])
    \/ \E id \in {"s1"} : delete_schedule(id)
    \/ \E z \in {"z1"}, day \in {0, 1}, minutes \in {360, 480, 1020} :
          get_schedule_state_at_time(z, day, minutes)
    \/ \E steps \in CompileSteps : update_zone_automations(steps, EmptyDict)
    \/ \E weekday \in {0, 1}, time \in {Str(S_0600), Str(S_0800), Str(S_1700)} :
          fire(ConsolidatedId("z1"), weekday, time, AtHome)

SpecAgree == Init /\ [][NextAgree]_vars

(* SpecAll: get_all_schedules over two schedules that are created, created
   again, renamed and deleted within one second or seconds apart. *)

AllCreateArgs == {Plain("s1"), Plain("s2")}

NextAll ==
    \/ \E a \in AllCreateArgs : create_schedule(a)
    \/ \E id \in ScheduleIds : update_schedule(id, [name |-> "B"])
    \/ \E id \in ScheduleIds : delete_schedule(id)
    \/ get_all_schedules
    \/ tick

SpecAll == Init /\ [][NextAll]_vars

(* SpecClient: the older client creates, updates and deletes schedules of
   the zones z1 and z2, Home Assistant answering some requests of a zone
   with an error. *)

ClientData ==
    {[id |-> "-", name |-> "A", zones |-> zs, active |-> TRUE, error |-> "-"] :
        zs \in {<<>>, <<"z1">>, <<"z2">>, <<"z1", "z2">>}}

ClientOk == [delete |-> "ok", create |-> "ok"]
ClientNoCreate == [delete |-> "ok", create |-> "error"]
ClientNoDelete == [delete |-> "error", create |-> "ok"]

ClientAnswers ==
    {[z \in ZoneIds |-> ClientOk],
     [z \in ZoneIds |-> IF z = "z1" THEN ClientNoCreate ELSE ClientOk],
     [z \in ZoneIds |-> IF z = "z2" THEN ClientNoCreate ELSE ClientOk],
     [z \in ZoneIds |-> ClientNoDelete]}

NextClient ==
    \/ \E d \in ClientData, id \in ScheduleIds, m \in ClientAnswers :
          client_create_schedule(d, id, m)
    \/ \E id \in ScheduleIds, d \in ClientData, m \in ClientAnswers :
          client_update_schedule(id, d, m)
    \/ \E id \in ScheduleIds, m \in ClientAnswers : client_delete_schedule(id, m)

SpecClient == Init /\ [][NextClient]_vars

-----------------------------------------------------------------------------
(* The properties *)

HasRow(schedule_id) == \E s \in schedules : s.id = schedule_id
RowOf(schedule_id) == CHOOSE s \in schedules : s.id = schedule_id
EntriesOf(schedule_id) ==
    RowsOfSchedule(schedule_entries, schedule_id)
IsFull(updates) == {"zones", "entries", "days"} \subseteq DOMAIN updates

\* the entries that qualify for a query: of an active schedule that is
\* directly assigned to the zone, on the weekday, at or before the minute
Qualifying(zone_id, weekday, minute) ==
    {e \in DOMAIN schedule_entries :
        /\ e.day_of_week = weekday
        /\ e.time_minutes <= minute
        /\ HasRow(e.schedule_id)
        /\ RowOf(e.schedule_id).active
        /\ [schedule_id |-> e.schedule_id, zone_id |-> zone_id] \in schedule_zones}

\* C1: get_schedule_state_at_time returns, among the entries of active
\* schedules directly assigned to the zone on the weekday at or before the
\* minute, one whose time is the greatest; the entry comes from a schedule
\* that has a zone assignment to the zone, never from a room-only one.
C1_ResolveLatest ==
    last.op = "get_schedule_state_at_time" =>
        LET q == Qualifying(last.args.zone_id, last.args.day_of_week,
                            last.args.time_minutes)
        IN q # {} =>
            \E e \in q :
                /\ \A o \in q : o.time_minutes <= e.time_minutes
                /\ last.of = e.schedule_id
                /\ last.ret = Dict([temperature   |-> e.temperature,
                                    action        |-> e.action,
                                    schedule_name |-> RowOf(e.schedule_id).name])

\* the Monday entries 06:00/20, 08:00/16, 17:00/21 govern z1, and the query
\* at 23:00 returned 21
C1_Witness ==
    /\ last.op = "get_schedule_state_at_time"
    /\ last.args = [zone_id |-> "z1", day_of_week |-> 0, time_minutes |-> 1380]
    /\ {<<e.time_minutes, e.temperature>> : e \in Qualifying("z1", 0, 1380)}
         = {<<360, Num(20)>>, <<480, Num(16)>>, <<1020, Num(21)>>}
    /\ last.ret # None
    /\ last.ret.v.temperature = Num(21)

\* C2: with no qualifying entry the resolver returns None and does not
\* raise; entries of the previous weekday do not carry over midnight.
C2_ResolveNone ==
    (/\ last.op = "get_schedule_state_at_time"
     /\ Qualifying(last.args.zone_id, last.args.day_of_week,
                   last.args.time_minutes) = {})
    => (last.ret = None /\ ~last.raised)

\* Tuesday 05:00 on z1: Tuesday's first entry is later, Monday has entries,
\* and the answer was None
C2_Witness ==
    /\ last.op = "get_schedule_state_at_time"
    /\ last.args = [zone_id |-> "z1", day_of_week |-> 1, time_minutes |-> 300]
    /\ Qualifying("z1", 1, 1380) # {}
    /\ Qualifying("z1", 0, 1380) # {}
    /\ last.ret = None

RecognisedDay(d) ==
    d.t = "str" /\ Lower(d.v) \in {S_mon, S_tue, S_wed, S_thu, S_fri, S_sat, S_sun}

\* the number of elements of a days list that are recognised
RecognisedDays(q) == Cardinality({i \in 1..Len(q) : RecognisedDay(q[i])})

\* C3 as stated: a create_schedule call with N entries and n listed days
\* stores exactly N * n entries for the schedule id.
C3_EntriesTimesDays ==
    (last.op = "create_schedule" /\ ~last.raised
        /\ last.args.entries # None /\ last.args.days # None)
    => BagCardinality(EntriesOf(last.args.schedule_id))
         = Len(last.args.entries.v) * Len(last.args.days.v)

\* C3 amended: a create_schedule call with N entries stores exactly N * n
\* entries for the schedule id, n being the number of listed days that are
\* one of mon..sun in any letter case; other names contribute nothing.
C3_EntriesTimesKnownDays ==
    (last.op = "create_schedule" /\ ~last.raised
        /\ last.args.entries # None /\ last.args.days # None)
    => BagCardinality(EntriesOf(last.args.schedule_id))
         = Len(last.args.entries.v) * RecognisedDays(last.args.days.v)

\* two entries on two recognised days, one of them capitalised: four rows
C3_Witness ==
    /\ last.op = "create_schedule" /\ ~last.raised
    /\ Len(last.args.entries.v) = 2
    /\ last.args.days = List(<<Str(S_mon), Str(S_Tue)>>)
    /\ BagCardinality(EntriesOf("s1")) = 4

\* the stored rows without the timestamps
Content ==
    <<{[id |-> s.id, name |-> s.name, active |-> s.active, metadata |-> s.metadata]
        : s \in schedules},
      schedule_zones, schedule_rooms, schedule_entries>>

\* C4: a create_schedule call that repeats the call before it, with the same
\* arguments, leaves the stored rows as the first call left them, with one
\* schedules row for the id and nothing duplicated.
C4_CreateTwice ==
    [][(/\ last.op = "create_schedule"
        /\ last'.op = "create_schedule"
        /\ last'.args = last.args)
       => /\ Content' = Content
          /\ (~last'.raised =>
                Cardinality({s \in schedules' : s.id = last'.args.schedule_id}) = 1)]_vars

\* the same successful call twice in a row, on a schedule with zones, rooms
\* and entries
C4_Witness ==
    /\ last.op = "create_schedule" /\ last.again /\ ~last.raised
    /\ \E r \in schedule_zones : r.schedule_id = last.args.schedule_id
    /\ \E r \in schedule_rooms : r.schedule_id = last.args.schedule_id
    /\ BagCardinality(EntriesOf(last.args.schedule_id)) = 1

\* C5: every zone assignment, room assignment and entry row references a
\* schedule id that is in the schedules table.
C5_ReferencesExist ==
    /\ \A r \in schedule_zones : HasRow(r.schedule_id)
    /\ \A r \in schedule_rooms : HasRow(r.schedule_id)
    /\ \A e \in DOMAIN schedule_entries : HasRow(e.schedule_id)

\* C6: while a schedule id has no schedules row (from a delete_schedule that
\* returned true until the id is created again), no query reflects it:
\* get_schedule is None, the zone and room lists do not hold it, no zone is
\* listed only because of it, and the resolver returns none of its entries.
C6_DeletedIsInvisible ==
    \A id \in ScheduleIds : ~HasRow(id) =>
        /\ (last.op = "get_schedule" /\ last.args.schedule_id = id)
              => last.ret = None
        /\ last.op \in {"get_active_schedules_for_zone", "get_active_schedules_for_room"}
              => \A i \in 1..Len(last.ret) : last.ret[i].v.id # id
        /\ last.op = "get_zones_with_schedules"
              => \A i \in 1..Len(last.ret) :
                    \E r \in schedule_zones :
                        /\ r.zone_id = last.ret[i]
                        /\ r.schedule_id # id
                        /\ HasRow(r.schedule_id)
                        /\ RowOf(r.schedule_id).active
        /\ last.op = "get_schedule_state_at_time" => last.of # id

\* s1 was deleted while assigned to z1 with a Monday entry (its rows are still
\* in the child tables) and the resolver was asked about z1 on Monday
C6_Witness ==
    /\ ~HasRow("s1")
    /\ [schedule_id |-> "s1", zone_id |-> "z1"] \in schedule_zones
    /\ \E e \in DOMAIN schedule_entries : e.schedule_id = "s1" /\ e.day_of_week = 0
    /\ last.op = "get_schedule_state_at_time"
    /\ last.args.zone_id = "z1" /\ last.args.day_of_week = 0
    /\ HasRow("s2")

\* C7: a create_schedule call that raises leaves every table as it was
\* before the call.
C7_FailedCreateChangesNothing ==
    [][(last'.op = "create_schedule" /\ last'.raised) => tables' = tables]_vars

\* a create_schedule call raised on an id whose previous version, with a
\* zone assignment and an entry, is stored
C7_Witness ==
    /\ last.op = "create_schedule" /\ last.raised
    /\ HasRow(last.args.schedule_id)
    /\ \E r \in schedule_zones : r.schedule_id = last.args.schedule_id
    /\ BagCardinality(EntriesOf(last.args.schedule_id)) = 1
    /\ last.args.name # RowOf(last.args.schedule_id).name

\* C8: update_schedule on an id that has no schedules row raises and changes
\* no table, whatever the updates.
C8_UpdateUnknownRaises ==
    [][(last'.op = "update_schedule" /\ ~HasRow(last'.args.schedule_id))
       => (last'.raised /\ tables' = tables)]_vars

\* a full update (zones, entries and days) was refused for an unknown id
C8_Witness ==
    /\ last.op = "update_schedule" /\ last.raised
    /\ ~HasRow(last.args.schedule_id)
    /\ IsFull(last.args.updates)
    /\ schedules # {}

\* C9: a partial update_schedule (not all of zones, entries, days supplied)
\* changes at most name, active and updated_at of the one schedule; a field
\* that is not supplied keeps its value, and every other row is unchanged.
C9_PartialUpdateFrame ==
    [][(last'.op = "update_schedule" /\ ~last'.raised /\ ~IsFull(last'.args.updates))
       => LET id == last'.args.schedule_id
              u  == last'.args.updates
              old == RowOf(id)
          IN /\ schedule_zones' = schedule_zones
             /\ schedule_rooms' = schedule_rooms
             /\ schedule_entries' = schedule_entries
             /\ {s \in schedules' : s.id # id} = {s \in schedules : s.id # id}
             /\ \E new \in schedules' :
                   /\ {s \in schedules' : s.id = id} = {new}
                   /\ new.metadata = old.metadata
                   /\ new.created_at = old.created_at
                   /\ new.name = (IF "name" \in DOMAIN u THEN u.name ELSE old.name)
                   /\ new.active = (IF "active" \in DOMAIN u THEN u.active ELSE old.active)]_vars

\* active alone was updated on a schedule renamed to B that has metadata, a
\* room, a zone and an entry, next to another schedule
C9_Witness ==
    /\ last.op = "update_schedule" /\ ~last.raised
    /\ last.args.updates = [active |-> FALSE]
    /\ LET row == RowOf(last.args.schedule_id) IN
          /\ row.name = "B" /\ ~row.active
    /\ \E r \in schedule_zones : r.schedule_id = last.args.schedule_id
    /\ BagCardinality(EntriesOf(last.args.schedule_id)) = 1
    /\ Cardinality(schedules) = 2

\* C10: the schedule a partial update_schedule returns shows the name and
\* active flag it was just given.
C10_ReturnShowsUpdate ==
    (last.op = "update_schedule" /\ ~last.raised /\ ~IsFull(last.args.updates))
    => /\ "active" \in DOMAIN last.args.updates
            => last.ret.v.active = last.args.updates.active
       /\ "name" \in DOMAIN last.args.updates
            => last.ret.v.name = last.args.updates.name


\* a zero-padded "HH:MM" with HH in 00..23 and MM in 00..59
ValidTimeStr(x) ==
    /\ x.t = "str"
    /\ Len(x.v) = 5
    /\ x.v[3] = ":"
    /\ \A i \in {1, 2, 4, 5} : IsDigit(x.v[i])
    /\ 10 * DigitVal(x.v[1]) + DigitVal(x.v[2]) <= 23
    /\ 10 * DigitVal(x.v[4]) + DigitVal(x.v[5]) <= 59

\* C11: converting a valid zero-padded "HH:MM" to minutes and the result back
\* gives the same string, and converting a minute in 0..1439 to a string and
\* the result back gives the same minute.
C11_RoundTrip ==
    [][ /\ (last.op = "_time_str_to_minutes" /\ ValidTimeStr(last.args)
            /\ last'.op = "_minutes_to_time_str" /\ last'.args = last.ret)
           => last'.ret = last.args
        /\ (last.op = "_minutes_to_time_str" /\ last.args.t = "num"
            /\ last.args.v \in 0..1439
            /\ last'.op = "_time_str_to_minutes" /\ last'.args = last.ret)
           => last'.ret = last.args ]_vars

\* 23:59 has been converted to 1439 and 1439 back to 23:59
C11_Witness ==
    /\ last.op = "_minutes_to_time_str"
    /\ last.args = Num(1439)
    /\ last.ret = Str(<<"2","3",":","5","9">>)


\* C12: every stored entry has day_of_week in 0..6 and time_minutes in
\* 0..1439, whatever time strings and day names create_schedule was given.
C12_EntriesInRange ==
    \A e \in DOMAIN schedule_entries :
        e.day_of_week \in 0..6 /\ e.time_minutes \in 0..1439

\* C13: every stored entry with action off has a null temperature and every
\* stored entry with action heat has a temperature.
C13_OffNullHeatPresent ==
    \A e \in DOMAIN schedule_entries :
        /\ e.action = "off" => e.temperature = None
        /\ e.action = "heat" => e.temperature # None


\* the rows of one schedule id in the four tables
RowsOf(schedule_id) ==
    <<{s \in schedules : s.id = schedule_id},
      {r \in schedule_zones : r.schedule_id = schedule_id},
      {r \in schedule_rooms : r.schedule_id = schedule_id},
      EntriesOf(schedule_id)>>

\* C14: a migration leaves every schedule that was stored before it exactly
\* as it was, and a migration that repeats the migration before it over the
\* same records leaves the whole store as the first run left it.
C14_MigrateIdempotent ==
    [][last'.op = "migrate_from_legacy_storage"
       => /\ \A id \in ScheduleIds : HasRow(id) => RowsOf(id)' = RowsOf(id)
          /\ (last.op = "migrate_from_legacy_storage" /\ last'.args = last.args)
                => UNCHANGED tables]_vars

\* the same directory migrated twice, the second time later, over a record
\* that the first run imported
C14_Witness ==
    /\ last.op = "migrate_from_legacy_storage" /\ last.again
    /\ now > 0
    /\ \E s \in schedules :
          /\ "legacy_migrated" \in DOMAIN s.metadata
          /\ s.created_at < now
          /\ \E i \in 1..Len(last.args.records) :
                DictGet(last.args.records[i], "id", "") = s.id


\* the legacy record a reported schedule was migrated from
Origin(v) ==
    CHOOSE r \in LegacyRecords :
        /\ "id" \in DOMAIN r /\ r.id = v.id
        /\ DictGet(r, "name", "Migrated Schedule") = v.name

\* the entry that one legacy period is to become
PeriodEntry(p) ==
    LET temperature == DictGet(p, "temperature", Num(20))
        off == temperature.t = "str" /\ Lower(temperature.v) = S_off
    IN [time        |-> DictGet(p, "time", DictGet(p, "start", Str(S_0800))),
        temperature |-> IF off THEN None ELSE temperature,
        action      |-> IF off THEN "off" ELSE "heat"]

\* a reported entry, with the temperature of an off entry left out
ReportedEntry(e) ==
    [time |-> e.time, temperature |-> IF e.action = "off" THEN None ELSE e.temperature,
     action |-> e.action]

SeqToBag(q) ==
    [x \in {q[i] : i \in 1..Len(q)} |-> Cardinality({i \in 1..Len(q) : q[i] = x})]

\* C15: the entries get_schedule reports for a migrated schedule are exactly
\* one entry per period of the legacy record, with the period's time (or
\* 08:00), its temperature (or 20) and action heat, or action off for a
\* temperature 'off' in any letter case.
C15_OneEntryPerPeriod ==
    (last.op = "get_schedule" /\ last.ret # None
        /\ "legacy_migrated" \in DOMAIN last.ret.v)
    => LET periods == DictGet(Origin(last.ret.v), "periods",
                              DictGet(Origin(last.ret.v), "entries", List(<<>>))).v
           entries == last.ret.v.entries
       IN SeqToBag([i \in 1..Len(entries) |-> ReportedEntry(entries[i])])
            = SeqToBag([i \in 1..Len(periods) |-> PeriodEntry(periods[i])])


\* the roster lookup answers with rooms that all have a name
RosterAnswers(roster) ==
    ~roster.raised /\ \A i \in 1..Len(roster.rooms) : "name" \in DOMAIN roster.rooms[i]

\* the names of the roster's rooms that hold the zone
RoomsOfZone(roster, zone_id) ==
    {roster.rooms[i].name : i \in
        {j \in 1..Len(roster.rooms) :
            /\ "devices" \in DOMAIN roster.rooms[j]
            /\ \E k \in 1..Len(roster.rooms[j].devices) :
                  roster.rooms[j].devices[k].entity_id = zone_id}}

\* the ids of the active schedules that are assigned to the zone or to a
\* room of the roster that holds the zone
Governing(zone_id, roster) ==
    {s.id : s \in
        {r \in schedules :
            /\ r.active
            /\ \/ [schedule_id |-> r.id, zone_id |-> zone_id] \in schedule_zones
               \/ \E sr \in schedule_rooms :
                     /\ sr.schedule_id = r.id
                     /\ sr.room_name \in RoomsOfZone(roster, zone_id)}}

DeleteDone(m) == m.delete = "ok" \/ (m.delete = "error" /\ m.remove = "ok")

Automation(automation_id) == CHOOSE x \in automations : x.id = automation_id

\* the times of the entries of the schedules found for a zone
EntryTimesOf(zone_schedules) ==
    UNION {{zone_schedules[i].v.entries[k].time :
               k \in 1..Len(zone_schedules[i].v.entries)} :
           i \in 1..Len(zone_schedules)}

\* C18: the automation update_zone_automations stores for a zone has exactly
\* one trigger for each time that occurs in an entry of a schedule of the
\* zone's governing set, every trigger is a time trigger, and there is no
\* trigger at any other time
C18_OneTriggerPerTime ==
    last.op = "update_zone_automations" =>
        \A i \in 1..Len(last.ret.zones) :
            LET zone == last.ret.zones[i] IN
            Len(zone.zone_schedules) > 0 /\ last.args.steps[i].m.config = "ok" =>
                LET trigger == Automation(ConsolidatedId(zone.zone_id)).config.trigger IN
                /\ \A t \in EntryTimesOf(zone.zone_schedules) :
                       Cardinality({k \in 1..Len(trigger) : trigger[k].at = t}) = 1
                /\ \A k \in 1..Len(trigger) :
                       /\ trigger[k].platform = "time"
                       /\ trigger[k].at \in EntryTimesOf(zone.zone_schedules)

\* C18 witness: the automation is compiled from two schedules that both have
\* an entry at 17:00, and one entry each at another time
C18_Witness ==
    /\ last.op = "update_zone_automations"
    /\ Len(last.ret.zones[1].zone_schedules) = 2
    /\ \A i \in 1..2 :
          \E k \in 1..Len(last.ret.zones[1].zone_schedules[i].v.entries) :
             last.ret.zones[1].zone_schedules[i].v.entries[k].time = Str(S_1700)
    /\ \E x \in automations :
          x.id = ConsolidatedId("z1") /\ Len(x.config.trigger) = 3

\* the conditions of an automation that test the state of an entity
StateConditions(config) ==
    {k \in 1..Len(config.condition) : config.condition[k].condition = "state"}

\* the away/home section says enabled
AwayHomeEnabled(away_home_config) ==
    "enabled" \in DOMAIN away_home_config /\ away_home_config.enabled

\* the presence entity the away/home section names, "" when it names none
AwayHomeEntity(away_home_config) ==
    IF "entity_id" \in DOMAIN away_home_config THEN away_home_config.entity_id ELSE ""

\* the home state the away/home section names, 'home' when it names none
AwayHomeState(away_home_config) ==
    IF "home_state" \in DOMAIN away_home_config THEN away_home_config.home_state ELSE "home"

\* the automation stored for a zone has a state condition on the presence
\* entity and the home state of the away/home section when gated, and has
\* no state condition when not gated
GatingAsSettings(gated) ==
    last.op = "update_zone_automations" =>
        \A i \in 1..Len(last.ret.zones) :
            LET zone == last.ret.zones[i] IN
            Len(zone.zone_schedules) > 0 /\ last.args.steps[i].m.config = "ok" =>
                LET config == Automation(ConsolidatedId(zone.zone_id)).config IN
                IF gated
                THEN \E k \in StateConditions(config) :
                        /\ config.condition[k].entity_id = AwayHomeEntity(last.args.away_home)
                        /\ config.condition[k].state = AwayHomeState(last.args.away_home)
                ELSE StateConditions(config) = {}

\* an automation with a state condition does not run its action while the
\* entity of the condition is in another state than the one it requires
GatedBodyWaits ==
    last.op = "fire" =>
        LET config == Automation(last.args.automation_id).config IN
        (\E k \in StateConditions(config) :
            /\ config.condition[k].entity_id = last.args.presence.entity_id
            /\ config.condition[k].state # last.args.presence.state)
        => ~last.ret.ran /\ last.ret.dispatched = <<>>

\* C19 as claimed: with away/home enabled every stored automation has a
\* condition that requires the presence entity to be in the home state, so
\* its action does not run while presence differs from home; with away/home
\* disabled it has no such condition
C19_GatedWhenEnabled ==
    /\ GatingAsSettings(AwayHomeEnabled(last.args.away_home))
    /\ GatedBodyWaits

\* C19 amended: the condition is present when away/home is enabled and a
\* presence entity is configured, and absent otherwise
C19_GatedWhenEnabledWithEntity ==
    /\ GatingAsSettings(AwayHomeEnabled(last.args.away_home)
                        /\ AwayHomeEntity(last.args.away_home) # "")
    /\ GatedBodyWaits

\* C19 witness: an automation compiled with away/home enabled on person.a is
\* reached at a trigger time on a day of its schedule while person.a is not
\* home, and its action does not run
C19_Witness ==
    /\ last.op = "fire"
    /\ last.args.presence.state = "not_home"
    /\ \E x \in automations :
          /\ x.id = last.args.automation_id
          /\ StateConditions(x.config) # {}
          /\ \A k \in 1..Len(x.config.condition) :
                x.config.condition[k].condition = "template" =>
                   ConditionHolds(x.config.condition[k], last.args.weekday,
                                  last.args.time, last.args.presence)
    /\ ~last.ret.ran

\* what an automation of a zone dispatches for an entry: hvac mode off for an
\* off entry, else the temperature of the entry and hvac mode heat
TargetOfEntry(zone_id, entry) ==
    Dispatch([entity_id    |-> zone_id,
              target_state |-> [temperature   |-> entry.temperature,
                                action        |-> IF IsOff(entry.temperature)
                                                     \/ entry.action = "off"
                                                  THEN "off" ELSE "heat",
                                schedule_name |-> ""]])

\* the entries of the schedules that apply at a weekday and a time
ApplicableEntries(zone_schedules, weekday, time) ==
    UNION {{zone_schedules[i].v.entries[k] :
               k \in {n \in 1..Len(zone_schedules[i].v.entries) :
                         zone_schedules[i].v.entries[n].time = time}} :
           i \in {n \in 1..Len(zone_schedules) :
                     \E d \in 1..Len(zone_schedules[n].v.days) :
                        zone_schedules[n].v.days[d] = Str(DayNames[weekday + 1])}}

\* C20: when the automation of zone z1, compiled from the schedules that
\* govern z1 now, runs its action at a weekday and a time, the service calls
\* it dispatches are those of an entry of a governing schedule that applies
\* at that weekday and time
C20_DispatchesApplicableEntry ==
    last.op = "fire" /\ last.ret.ran =>
        \A zone_schedules \in GetAllSchedulesForZone(DB, "z1", RosterR1Z1) :
            (\E c \in AwayHomeConfigs :
                Automation(last.args.automation_id).config
                    = BuildConsolidatedConfig("z1", zone_schedules, c).config)
            => \E entry \in ApplicableEntries(zone_schedules, last.args.weekday,
                                               last.args.time) :
                  last.ret.dispatched = TargetOfEntry("z1", entry)

\* the schedules of a list that have an entry that applies at a weekday and
\* a time, as their places in the list
HoldersAt(zone_schedules, weekday, time) ==
    {i \in 1..Len(zone_schedules) :
        ApplicableEntries(<<zone_schedules[i]>>, weekday, time) # {}}

\* C21: when two schedules of the governing set of z1 both have an entry at
\* the weekday and time at which the automation of z1, compiled from that
\* governing set, runs its action, the calls it dispatches are those of the
\* entry of the first of these schedules in the order of the governing set
C21_TieFirstSchedule ==
    last.op = "fire" /\ last.ret.ran =>
        \A zone_schedules \in GetAllSchedulesForZone(DB, "z1", RosterR1Z1) :
            LET holders == HoldersAt(zone_schedules, last.args.weekday, last.args.time)
                first   == CHOOSE i \in holders : \A j \in holders : i <= j
            IN (/\ Automation(last.args.automation_id).config
                      = BuildConsolidatedConfig("z1", zone_schedules, EmptyDict).config
                /\ Cardinality(holders) >= 2)
               => \E entry \in ApplicableEntries(<<zone_schedules[first]>>,
                                                  last.args.weekday, last.args.time) :
                     last.ret.dispatched = TargetOfEntry("z1", entry)

\* the zones of a call of update_zone_automations
ZonesOfCall == {last.ret.zones[i].zone_id : i \in 1..Len(last.ret.zones)}

\* C22: after update_zone_automations has returned True for a list of
\* different zones that all have schedules, Home Assistant holds a
\* consolidated automation for each of them, as many consolidated
\* automations as zones, and no two of the zones have the same automation id
C22_OneArtifactPerZone ==
    (/\ last.op = "update_zone_automations"
     /\ last.ret.success
     /\ Cardinality(ZonesOfCall) = Len(last.ret.zones)
     /\ \A i \in 1..Len(last.ret.zones) : Len(last.ret.zones[i].zone_schedules) > 0)
    => /\ \A z \in ZonesOfCall : \E x \in automations : x.id = ConsolidatedId(z)
       /\ Cardinality({x \in automations :
                          \E z \in ZonesOfCall : x.id = ConsolidatedId(z)})
             = Cardinality(ZonesOfCall)
       /\ \A y, z \in ZonesOfCall : y # z => ConsolidatedId(y) # ConsolidatedId(z)

\* C23: _remove_zone_automation returns True when Home Assistant answers
\* the delete with 404 because the zone has no automation, and when it is
\* called twice in a row for a zone both calls return True, the second
\* finding nothing left to delete once the first delete was carried out
C23_RemoveIdempotent ==
    [][last'.op = "_remove_zone_automation" =>
        /\ (last'.ret.log[1].status = "404" => last'.ret.success)
        /\ (last'.again =>
              /\ last.ret.success /\ last'.ret.success
              /\ (DeleteDone(last'.args.m) =>
                    /\ last'.ret.log[1].status \in {"404", "500"}
                    /\ automations' = automations))]_vars

\* C23 witness: the second of two removals in a row, answered 404
C23_Witness ==
    /\ last.op = "_remove_zone_automation"
    /\ last.again
    /\ last.ret.log[1].status = "404"
    /\ last.ret.success

\* the places in a log of the requests of a kind with an id and a status
Places(log, req, automation_id, status) ==
    {k \in 1..Len(log) : log[k] = Request(req, automation_id, status)}

\* in the log of a zone the delete of the zone's automation is followed by a
\* config request answered 200, and that by a reload answered 200
DeleteConfigReload(zone) ==
    \E d, c, r \in 1..Len(zone.log) :
        /\ d < c /\ c < r
        /\ zone.log[d].req = "DELETE config"
        /\ zone.log[d].id = ConsolidatedId(zone.zone_id)
        /\ c \in Places(zone.log, "POST config", ConsolidatedId(zone.zone_id), "200")
        /\ r \in Places(zone.log, "POST automation/reload", <<>>, "200")

\* in the log of a zone the delete of the zone's automation is followed by a
\* config request or a reload answered with an error status, and that by a
\* request to the create service answered 200, the last request of the zone
DeleteFallbackCreate(zone) ==
    \E d, e \in 1..Len(zone.log) :
        /\ d < e /\ e < Len(zone.log)
        /\ zone.log[d].req = "DELETE config"
        /\ zone.log[d].id = ConsolidatedId(zone.zone_id)
        /\ \/ e \in Places(zone.log, "POST config", ConsolidatedId(zone.zone_id), "500")
           \/ e \in Places(zone.log, "POST automation/reload", <<>>, "500")
        /\ Len(zone.log) \in Places(zone.log, "POST automation/create", <<>>, "200")

\* the zones of the last call of update_zone_automations that had schedules
\* and whose push reported success
PushedWell ==
    IF last.op # "update_zone_automations" THEN {}
    ELSE {last.ret.zones[i] : i \in {n \in 1..Len(last.ret.zones) :
              /\ Len(last.ret.zones[n].zone_schedules) > 0
              /\ last.ret.zones[n].success}}

\* C24 as claimed: a push that reports success has issued the delete of the
\* zone's automation, then had its config request answered 200, then had
\* its reload answered 200
C24_SuccessAfterReload ==
    \A zone \in PushedWell : DeleteConfigReload(zone)

\* C24 amended: a push that reports success has issued the delete of the
\* zone's automation and then either had its config request and after it
\* its reload answered 200, or, the config request or the reload having
\* been answered with an error status, had its request to the create service
\* answered 200 as its last request
C24_SuccessAfterReloadOrFallback ==
    \A zone \in PushedWell : DeleteConfigReload(zone) \/ DeleteFallbackCreate(zone)

\* C24 witness: a push replaces the automation a zone had: the delete is
\* answered 200, then the config request and the reload
C24_Witness ==
    \E zone \in PushedWell :
        /\ DeleteConfigReload(zone)
        /\ Places(zone.log, "DELETE config", ConsolidatedId(zone.zone_id), "200") # {}
        /\ \E x \in automations : x.id = ConsolidatedId(zone.zone_id) /\ x.active

\* no create request of a zone was answered 200
CreateFailed(zone) ==
    /\ Places(zone.log, "POST config", ConsolidatedId(zone.zone_id), "200") = {}
    /\ Places(zone.log, "POST automation/create", <<>>, "200") = {}

\* the requests of a kind in a log
RequestsOf(log, req) == {k \in 1..Len(log) : log[k].req = req}

\* C25: update_zone_automations returns False when every create request of
\* a zone with schedules failed, returns True only when a create request
\* was answered 200 for every zone with schedules, and sends each kind of
\* create request at most once for a zone
C25_FailedCreateFails ==
    last.op = "update_zone_automations" =>
        \A i \in 1..Len(last.ret.zones) :
            LET zone == last.ret.zones[i] IN
            Len(zone.zone_schedules) > 0 =>
                /\ (CreateFailed(zone) => ~zone.success /\ ~last.ret.success)
                /\ (last.ret.success => ~CreateFailed(zone))
                /\ Cardinality(RequestsOf(zone.log, "POST config")) <= 1
                /\ Cardinality(RequestsOf(zone.log, "POST automation/create")) <= 1

\* C25 witness: in a call for two zones the config request and the create
\* service both answer the zone with schedules with an error
C25_Witness ==
    /\ last.op = "update_zone_automations"
    /\ Len(last.ret.zones) = 2
    /\ \E i \in 1..2 :
          /\ Len(last.ret.zones[i].zone_schedules) > 0
          /\ RequestsOf(last.ret.zones[i].log, "POST config") # {}
          /\ RequestsOf(last.ret.zones[i].log, "POST automation/create") # {}
          /\ CreateFailed(last.ret.zones[i])
    /\ ~last.ret.success

\* C26: in a call of update_zone_automations for several zones every zone
\* is handled whatever happened to the others: a zone with schedules has
\* its config request sent, a zone without has its delete sent, the call
\* returns a boolean without raising, and a zone whose push reported
\* success has, after the call, the automation that was compiled for it
C26_ZonesIndependent ==
    last.op = "update_zone_automations" =>
        /\ ~last.raised
        /\ last.ret.success \in BOOLEAN
        /\ \A i \in 1..Len(last.ret.zones) :
              LET zone == last.ret.zones[i] IN
              IF Len(zone.zone_schedules) > 0
              THEN /\ RequestsOf(zone.log, "POST config") # {}
                   /\ zone.success =>
                         \E x \in automations :
                            /\ x.id = ConsolidatedId(zone.zone_id)
                            /\ x.config = BuildConsolidatedConfig(
                                              zone.zone_id, zone.zone_schedules,
                                              last.args.away_home).config
              ELSE RequestsOf(zone.log, "DELETE config") # {}

\* C28: get_all_schedules returns every stored schedule exactly once, a
\* schedule created later before one created earlier: the list is in
\* descending order of created_at, and when the call before it has created
\* a schedule that schedule is the first of the list
C28_AllNewestFirst ==
    [][last'.op = "get_all_schedules" =>
        LET q == last'.ret.v IN
        /\ {q[i].v.id : i \in 1..Len(q)} = {r.id : r \in schedules'}
        /\ Len(q) = Cardinality(schedules')
        /\ \A i, j \in 1..Len(q) : i < j => q[i].v.created_at >= q[j].v.created_at
        /\ (last.op = "create_schedule" /\ ~last.raised
               => q[1].v.id = last.args.schedule_id)]_vars

\* C29: after update_zone_automations has pushed the consolidated
\* automation of a zone with success, Home Assistant holds no automation of
\* the older schemes for the zone: neither the combined automation
\* '<prefix>_zone_<zone name>' nor one of the numbered ids of the cleanup
C29_NoSupersededLeft ==
    last.op = "update_zone_automations" =>
        \A i \in 1..Len(last.ret.zones) :
            LET zone == last.ret.zones[i] IN
            (zone.success /\ Len(zone.zone_schedules) > 0) =>
                \A x \in automations :
                    /\ x.id # CombinedId(zone.zone_id)
                    /\ \A n \in 1..Len(OldIds(zone.zone_id)) :
                          x.id # OldIds(zone.zone_id)[n]

\* what the create and reload requests of a zone say: the config request
\* and the reload were answered 200, or the create service was answered 200
CreateReloadSays(zone) ==
    \/ /\ Places(zone.log, "POST config", ConsolidatedId(zone.zone_id), "200") # {}
       /\ Places(zone.log, "POST automation/reload", <<>>, "200") # {}
    \/ Places(zone.log, "POST automation/create", <<>>, "200") # {}

\* the delete requests of a log that were not answered 200 or 404
DeletesFailed(log) ==
    {k \in RequestsOf(log, "DELETE config") \cup RequestsOf(log, "POST automation/remove") :
        log[k].status \notin {"200", "404"}}

\* C30: whatever Home Assistant answers to the deletes of a push, every
\* delete of the push reports True, the config request of the zone is sent
\* after them, and the push reports success exactly when its create and
\* reload requests say so
C30_DeleteNeverFatal ==
    last.op = "update_zone_automations" =>
        \A i \in 1..Len(last.ret.zones) :
            LET zone == last.ret.zones[i]
                m    == last.args.steps[i].m
                ids  == OldIds(zone.zone_id) \o <<ConsolidatedId(zone.zone_id)>>
            IN Len(zone.zone_schedules) > 0 =>
                /\ \A n \in 1..Len(ids) : _delete_ha_automation(automations, ids[n], m).ok
                /\ _cleanup_old_zone_automations(automations, zone.zone_id, m).ok
                /\ \A d \in RequestsOf(zone.log, "DELETE config") :
                      \E c \in RequestsOf(zone.log, "POST config") : d < c
                /\ zone.success = CreateReloadSays(zone)

\* C30 witness: every delete of a push was answered with an error status or
\* timed out, and the push reports success
C30_Witness ==
    /\ last.op = "update_zone_automations"
    /\ \E i \in 1..Len(last.ret.zones) :
          LET zone == last.ret.zones[i] IN
          /\ Len(zone.zone_schedules) > 0
          /\ RequestsOf(zone.log, "DELETE config") # {}
          /\ RequestsOf(zone.log, "DELETE config") \subseteq DeletesFailed(zone.log)
          /\ zone.success

\* the automations Home Assistant holds under the consolidated id of a zone
ConsolidatedOf(zone_id) == {x \in automations : x.id = ConsolidatedId(zone_id)}

\* both callers have pushed a config for the same zone and both calls
\* returned True
BothPushed ==
    /\ \A p \in Procs : pushes[p].pc = "True" /\ pushes[p].config # None
    /\ pushes["p1"].zone_id = pushes["p2"].zone_id

FullReplaceDone(l) ==
    /\ l.op = "update_schedule"
    /\ ~l.raised
    /\ {"zones", "entries", "days"} \subseteq DOMAIN l.args.updates

\* C33: after update_schedule with zones, entries and days has replaced a
\* schedule, the schedule has no row in schedule_rooms, its metadata is the
\* metadata supplied or else empty, and get_active_schedules_for_room does
\* not return it for any room
C33_FullReplaceDropsRooms ==
    [][FullReplaceDone(last') =>
        LET sid == last'.args.schedule_id
            u   == last'.args.updates
        IN /\ \A r \in schedule_rooms' : r.schedule_id # sid
           /\ \A s \in schedules' : s.id = sid =>
                 s.metadata = IF "metadata" \in DOMAIN u THEN u.metadata.v ELSE EmptyDict
           /\ \A room \in {Str(S_r1), Str(S_r2)} :
                 \A ret \in GetActiveSchedulesForRoom(
                                [schedules |-> schedules', zones |-> schedule_zones',
                                 rooms |-> schedule_rooms', entries |-> schedule_entries'],
                                room) :
                     \A i \in 1..Len(ret) : ret[i].v.id # sid]_vars

\* C33 witness: s1, which is only ever created with two rooms and a note
\* in its metadata, has been replaced in full without metadata and is stored
\* with no rooms and empty metadata, while s2 keeps its room
C33_Witness ==
    /\ FullReplaceDone(last)
    /\ "metadata" \notin DOMAIN last.args.updates
    /\ last.args.schedule_id = "s1"
    /\ \E s \in schedules : s.id = "s1" /\ s.metadata = EmptyDict
    /\ \A r \in schedule_rooms : r.schedule_id # "s1"
    /\ \E r \in schedule_rooms : r.schedule_id = "s2"

\* C34: create_schedule called for a schedule with the zones, rooms,
\* entries and days get_schedule returned for it leaves the entry rows, the
\* zone rows and the room rows of the schedule as they were
C34_RoundTripKeeps ==
    [][last'.op = "read_and_create" =>
        LET sid == last'.args.schedule_id IN
        /\ ~last'.raised
        /\ RowsOfSchedule(schedule_entries', sid) = RowsOfSchedule(schedule_entries, sid)
        /\ {r \in schedule_zones' : r.schedule_id = sid}
              = {r \in schedule_zones : r.schedule_id = sid}
        /\ {r \in schedule_rooms' : r.schedule_id = sid}
              = {r \in schedule_rooms : r.schedule_id = sid}]_vars

\* the same for schedules whose entries are all on one day
C34_RoundTripKeepsOneDay ==
    [][(/\ last'.op = "read_and_create"
        /\ Len(last'.args.days.v) <= 1) =>
        LET sid == last'.args.schedule_id IN
        /\ ~last'.raised
        /\ RowsOfSchedule(schedule_entries', sid) = RowsOfSchedule(schedule_entries, sid)
        /\ {r \in schedule_zones' : r.schedule_id = sid}
              = {r \in schedule_zones : r.schedule_id = sid}
        /\ {r \in schedule_rooms' : r.schedule_id = sid}
              = {r \in schedule_rooms : r.schedule_id = sid}]_vars

\* the zone has an active schedule assigned to it directly that has entries
HasDirectSchedule(zone_id) ==
    \E id \in ActiveIdsForZone(DB, zone_id) :
        RowsOfSchedule(schedule_entries, id) # EmptyBag

\* C35: update_zone_automations does not remove the consolidated automation
\* of a zone that has an active directly assigned schedule with entries,
\* whatever the roster of rooms does: it sends no delete that is not followed
\* by a config request, and an automation the zone had is still there
C35_DirectScheduleKeepsArtifact ==
    [][last'.op = "update_zone_automations" =>
        \A i \in 1..Len(last'.ret.zones) :
            LET zone == last'.ret.zones[i] IN
            HasDirectSchedule(zone.zone_id) =>
                /\ RequestsOf(zone.log, "POST config") # {}
                /\ (ConsolidatedOf(zone.zone_id) # {} =>
                       \E x \in automations' : x.id = ConsolidatedId(zone.zone_id))]_vars

\* the same for calls in which the roster of rooms is answered
C35_DirectScheduleKeepsArtifactRosterOk ==
    [][last'.op = "update_zone_automations" =>
        \A i \in 1..Len(last'.ret.zones) :
            LET zone == last'.ret.zones[i]
                step == last'.args.steps[i]
            IN (HasDirectSchedule(zone.zone_id) /\ step.roster \in {RosterR1Z1, RosterEmpty}) =>
                /\ RequestsOf(zone.log, "POST config") # {}
                /\ (ConsolidatedOf(zone.zone_id) # {} =>
                       \E x \in automations' : x.id = ConsolidatedId(zone.zone_id))]_vars

\* Home Assistant has carried out the delete of the zone's consolidated
\* automation that the log of the zone holds
DeleteSucceeded(zone) ==
    \E k \in 1..Len(zone.log) :
        /\ zone.log[k].id = ConsolidatedId(zone.zone_id)
        /\ \/ zone.log[k].req = "DELETE config" /\ zone.log[k].status \in {"200", "404"}
           \/ zone.log[k].req = "POST automation/remove" /\ zone.log[k].status = "200"

\* C36: in a push the delete of the zone's consolidated automation is sent
\* before the config request; when Home Assistant has carried out the delete
\* and then answered no create request of the push with 200, it holds no
\* consolidated automation of the zone after the call, not even the one the
\* zone had, and the zone and the call report False
C36_FailedCreateLeavesNone ==
    last.op = "update_zone_automations" =>
        \A i \in 1..Len(last.ret.zones) :
            LET zone == last.ret.zones[i] IN
            RequestsOf(zone.log, "POST config") # {} =>
                /\ \E d \in RequestsOf(zone.log, "DELETE config") :
                      /\ zone.log[d].id = ConsolidatedId(zone.zone_id)
                      /\ \A c \in RequestsOf(zone.log, "POST config") : d < c
                /\ (DeleteSucceeded(zone) /\ CreateFailed(zone)) =>
                      /\ ConsolidatedOf(zone.zone_id) = {}
                      /\ ~zone.success
                      /\ ~last.ret.success

\* C36 witness: the delete of a push removed the automation the zone had
\* (it was answered 200), the create requests failed, and the zone has none
C36_Witness ==
    /\ last.op = "update_zone_automations"
    /\ \E i \in 1..Len(last.ret.zones) :
          LET zone == last.ret.zones[i] IN
          /\ Places(zone.log, "DELETE config", ConsolidatedId(zone.zone_id), "200") # {}
          /\ RequestsOf(zone.log, "POST config") # {}
          /\ CreateFailed(zone)
          /\ ConsolidatedOf(zone.zone_id) = {}
          /\ ~last.ret.success

\* C38: when the automation of zone z1, compiled from the schedules that
\* govern z1 now, is fired at a weekday and a time, its action runs only if
\* a governing schedule lists the weekday among its days and has an entry at
\* the time; fired at the time of an entry of a schedule that does not apply
\* on the weekday, no other schedule having an entry then, it dispatches
\* nothing
C38_BodyOnlyWhenApplicable ==
    last.op = "fire" =>
        \A zone_schedules \in GetAllSchedulesForZone(DB, "z1", RosterR1Z1) :
            (\E c \in AwayHomeConfigs :
                Automation(last.args.automation_id).config
                    = BuildConsolidatedConfig("z1", zone_schedules, c).config)
            => LET applicable == ApplicableEntries(zone_schedules, last.args.weekday,
                                                   last.args.time)
               IN /\ last.ret.ran => applicable # {}
                  /\ applicable = {} => last.ret.dispatched = <<>>

\* C38 witness: the automation compiled from the governing set of z1 has no
\* presence condition and a trigger at 08:00 that only a Tuesday schedule
\* gives; fired on Monday at 08:00 its action does not run
C38_Witness ==
    /\ last.op = "fire"
    /\ last.args.weekday = 0
    /\ last.args.time = Str(S_0800)
    /\ ~last.ret.ran
    /\ StateConditions(Automation(last.args.automation_id).config) = {}
    /\ \E zone_schedules \in GetAllSchedulesForZone(DB, "z1", RosterR1Z1) :
          /\ Automation(last.args.automation_id).config
                = BuildConsolidatedConfig("z1", zone_schedules, EmptyDict).config
          /\ ApplicableEntries(zone_schedules, 1, Str(S_0800)) # {}
          /\ ApplicableEntries(zone_schedules, 0, Str(S_0800)) = {}

\* the entry rows stored for the schedules of a list at a weekday and a time
StoredRowsAt(zone_schedules, weekday, time) ==
    {row \in DOMAIN schedule_entries :
        /\ \E i \in 1..Len(zone_schedules) : zone_schedules[i].v.id = row.schedule_id
        /\ row.day_of_week = weekday
        /\ _minutes_to_time_str(row.time_minutes) = time}

\* the service calls that agree with a stored row: hvac mode off for action
\* off, the temperature of the row and hvac mode heat for action heat
DispatchOfRow(zone_id, row) ==
    Dispatch([entity_id    |-> zone_id,
              target_state |-> [temperature |-> row.temperature, action |-> row.action,
                                schedule_name |-> ""]])

\* C39: when the automation of zone z1, compiled from the one schedule that
\* governs z1 now, runs its action at the weekday and time of an entry, the
\* service calls it dispatches are those of the action the store holds for
\* the entry, and the resolver reports that action for the zone at that time
C39_DispatchAgreesWithStore ==
    last.op = "fire" /\ last.ret.ran =>
        \A zone_schedules \in GetAllSchedulesForZone(DB, "z1", RosterR1Z1) :
            Automation(last.args.automation_id).config
                = BuildConsolidatedConfig("z1", zone_schedules, EmptyDict).config
            => \A row \in StoredRowsAt(zone_schedules, last.args.weekday, last.args.time) :
                  /\ last.ret.dispatched = DispatchOfRow("z1", row)
                  /\ \A r \in GetScheduleStateAtTime(DB, "z1", row.day_of_week,
                                                      row.time_minutes) :
                        r.ret # None => r.ret.v.action = row.action

\* the same for entries that are stored with the action heat
C39_DispatchAgreesWithStoreHeat ==
    last.op = "fire" /\ last.ret.ran =>
        \A zone_schedules \in GetAllSchedulesForZone(DB, "z1", RosterR1Z1) :
            Automation(last.args.automation_id).config
                = BuildConsolidatedConfig("z1", zone_schedules, EmptyDict).config
            => \A row \in StoredRowsAt(zone_schedules, last.args.weekday, last.args.time) :
                  (row.action = "heat" \/ row.temperature = None) =>
                      last.ret.dispatched = DispatchOfRow("z1", row)

\* the zones of a list of zones
ZoneSet(zones) == {zones[i] : i \in 1..Len(zones)}

\* the zones whose combined automation the requests of the call were for
ZonesRequested(log) ==
    {z \in ZoneIds : \E i \in 1..Len(log) : log[i].id = CombinedId(z)}

\* the zones of the file of a schedule
FileZones(F, schedule_id) ==
    UNION {ZoneSet(f.zones) : f \in {x \in F : x.id = schedule_id}}

\* C31: HomeAssistantClient.update_schedule sends, within the call, the
\* requests of a push for every zone the schedule had in its file before the
\* call and for every zone of the schedule_data it is given, and
\* delete_schedule for every zone the deleted schedule had in its file
C31_MutationPushesAffectedZones ==
    [][/\ last'.op = "client.update_schedule"
          => FileZones(files, last'.args.schedule_id)
                \cup ZoneSet(last'.args.schedule_data.zones)
                \subseteq ZonesRequested(last'.ret.log)
       /\ last'.op = "client.delete_schedule"
          => /\ FileZones(files, last'.args.schedule_id)
                   \subseteq ZonesRequested(last'.ret.log)
             /\ FileZones(files', last'.args.schedule_id) = {}]_vars

\* an update has taken zone z1 off a schedule and the combined automation of
\* z1, which no schedule is left on, has been deleted by its push
C31_Witness ==
    /\ last.op = "client.update_schedule"
    /\ "z1" \in ZoneSet(last.ret.old_zones)
    /\ "z1" \notin ZoneSet(last.ret.schedule.zones)
    /\ "z1" \in ZonesRequested(last.ret.log)
    /\ \A f \in files : "z1" \notin ZoneSet(f.zones)
    /\ \A x \in automations : x.id # CombinedId("z1")

\* the requests of the call that created an automation, and those that failed
CreateRequests(log) ==
    {i \in 1..Len(log) : log[i].req = "create"}

\* C32: after HomeAssistantClient.create_schedule the schedule is in its
\* file; it was there before the push, so that the combined automation of
\* each of its zones that was created holds it; when the creation of some
\* zone failed the file has active false and an error, and when none failed
\* it has active true and no error
C32_CreateReportsPush ==
    last.op = "client.create_schedule" =>
        /\ \E f \in files : f.id = last.of
        /\ \A f \in files : f.id = last.of =>
              /\ f.zones = last.args.schedule_data.zones
              /\ IF \E i \in CreateRequests(last.ret.log) :
                        last.ret.log[i].status # "ok"
                 THEN f.active = FALSE /\ f.error # "-"
                 ELSE f.active = TRUE /\ f.error = "-"
              /\ \A i \in CreateRequests(last.ret.log) :
                    last.ret.log[i].status = "ok" =>
                       \E x \in automations :
                          /\ x.id = last.ret.log[i].id
                          /\ last.of \in x.config.schedules
              /\ \A z \in ZoneSet(f.zones) : z \in ZonesRequested(last.ret.log)

\* a schedule of z1 and z2 was created, the creation for z1 failed and that
\* for z2 succeeded: the file is there with active false and the error
C32_Witness ==
    /\ last.op = "client.create_schedule"
    /\ last.args.schedule_data.zones = <<"z1", "z2">>
    /\ last.args.m["z1"].create = "error"
    /\ last.args.m["z2"].create = "ok"
    /\ \E f \in files : f.id = last.of /\ ~f.active /\ f.error = S_push_failed
    /\ \E x \in automations : x.id = CombinedId("z2")

\* both callers have committed a mutation and pushed zone z1 after it, and
\* both pushes returned True
MutationsPushed ==
    \A p \in Procs : pushes[p].pc = "True" /\ pushes[p].zone_id = "z1"

\* what Home Assistant holds under the consolidated id of the zone is what
\* update_zone_automations leaves when it runs alone on the schedules as
\* they are committed now: the config compiled from them, loaded, or nothing
\* when the zone has no schedule
ArtifactOfStore(zone_id) ==
    \E zone_schedules \in GetAllSchedulesForZone(DB, zone_id, RosterEmpty) :
        IF Len(zone_schedules) = 0
        THEN ConsolidatedOf(zone_id) = {}
        ELSE ConsolidatedOf(zone_id) =
                {[id |-> ConsolidatedId(zone_id),
                  config |-> BuildConsolidatedConfig(zone_id, zone_schedules,
                                                     EmptyDict).config,
                  active |-> TRUE]}

\* what the push of caller p leaves under the consolidated id of its zone
ArtifactOfPush(p) ==
    IF pushes[p].config = None
    THEN ConsolidatedOf(pushes[p].zone_id) = {}
    ELSE ConsolidatedOf(pushes[p].zone_id) =
            {[id |-> ConsolidatedId(pushes[p].zone_id),
              config |-> pushes[p].config, active |-> TRUE]}

====
